---------------------------- MODULE Spec2Model ----------------------------
(***************************************************************************)
(* Model of the rich-text formatting core of content-bot                   *)
(* (src/src/content_bot/bot/formatters.py): the sanitizer, the validator,  *)
(* the truncator, the chunker and format_process_report.                   *)
(*                                                                         *)
(* A text is a sequence of one-character strings.  Python indices are      *)
(* 0-based, TLA+ sequences 1-based: an operator that returns a Python      *)
(* index (RFind, CutPoint) says so.                                        *)
(***************************************************************************)
EXTENDS Integers, Sequences, FiniteSets, TLC

VARIABLES
    input,       \* the text the caller starts from
    arg,         \* the argument of the last call
    result,      \* the current text: the input, then each call's string result
    valid,       \* what the last validate_telegram_html call returned
    parts,       \* what the last split_html_report call returned
    report,      \* the result record handed to format_process_report
    max_length,  \* the budget handed to truncate_html / split_html_report
    calls,       \* the calls made so far, in order
    pc,          \* where generate_content_seeds or the handler is
    raised,      \* the exception that left generate_content_seeds or the handler
    refs,        \* which reference files generate_content_seeds has loaded
    raw_parts,   \* the list "parts" of _collect_raw_material
    loop_index,  \* the index of the loop pc is in
    sends,       \* the outbound calls of the handler so far, with their outcome
    callers,     \* for each of several concurrent callers: its call, where
                 \* the call is, and what it returned
    locals,      \* the local variables of the calls in progress
    vault        \* the git working tree of the vault: whether it has
                 \* changes, and the commits made and pushed

vars == <<input, arg, result, valid, parts, report, max_length, calls,
          pc, raised, refs, raw_parts, loop_index, sends, callers, locals,
          vault>>

\* the concurrent callers' calls and the vault
threads == <<callers, locals, vault>>

\* what the formatting core leaves alone
outside == <<pc, raised, refs, raw_parts, loop_index, sends, callers, locals,
             vault>>

---------------------------------------------------------------------------
(* Character classes of the regular expressions.                           *)

LowerSeq ==
    <<"a","b","c","d","e","f","g","h","i","j","k","l","m",
      "n","o","p","q","r","s","t","u","v","w","x","y","z">>

UpperSeq ==
    <<"A","B","C","D","E","F","G","H","I","J","K","L","M",
      "N","O","P","Q","R","S","T","U","V","W","X","Y","Z">>

Letters == {LowerSeq[k] : k \in 1..26} \cup {UpperSeq[k] : k \in 1..26}

Digits == {"0","1","2","3","4","5","6","7","8","9"}

HexDigits == Digits \cup {"a","b","c","d","e","f","A","B","C","D","E","F"}

WhiteSpace == {" ", "\n", "\t", "\r"}

\* str.lower() on one character
Lower(c) ==
    IF \E k \in 1..26 : UpperSeq[k] = c
    THEN LowerSeq[CHOOSE k \in 1..26 : UpperSeq[k] = c]
    ELSE c

LowerAll(s) == [k \in 1..Len(s) |-> Lower(s[k])]

ALLOWED_TAGS ==
    { <<"b">>, <<"i">>, <<"c","o","d","e">>, <<"p","r","e">>,
      <<"a">>, <<"s">>, <<"u">> }

Min(a, b) == IF a < b THEN a ELSE b

Max(a, b) == IF a > b THEN a ELSE b

\* text[p:] starts with pat, p a 1-based position
StartsWith(text, p, pat) ==
    /\ p + Len(pat) - 1 <= Len(text)
    /\ \A k \in 1..Len(pat) : text[p + k - 1] = pat[k]

RECURSIVE RunLen(_, _, _)
\* the number of consecutive characters of class cls from position p on
RunLen(text, p, cls) ==
    IF p <= Len(text) /\ text[p] \in cls
    THEN 1 + RunLen(text, p + 1, cls)
    ELSE 0

RECURSIVE FirstGt(_, _)
\* the position of the first ">" at or after p, 0 when there is none
FirstGt(text, p) ==
    IF p > Len(text) THEN 0
    ELSE IF text[p] = ">" THEN p
    ELSE FirstGt(text, p + 1)

NoTag == [len |-> 0, closing |-> FALSE, name |-> <<>>]

\* The tag pattern of the three scanners matched at position i (re.match on
\* text[i-1:]): "<", an optional "/", one or more letters, optionally one
\* white-space character and any characters but ">", then ">".  Gives the
\* length of the match (0: no match), group 1 and the lowercased name.  The
\* name is the whole run of letters: what follows it must be "\s" or ">".
TagMatch(text, i) ==
    IF i > Len(text) \/ text[i] # "<" THEN NoTag
    ELSE
        LET closing == i + 1 <= Len(text) /\ text[i + 1] = "/"
            p == IF closing THEN i + 2 ELSE i + 1
            run == RunLen(text, p, Letters)
            q == p + run
            gt == FirstGt(text, q)
        IN  IF run = 0 \/ q > Len(text) THEN NoTag
            ELSE IF text[q] = ">"
                 THEN [len |-> q - i + 1, closing |-> closing,
                       name |-> LowerAll(SubSeq(text, p, q - 1))]
            ELSE IF text[q] \in WhiteSpace /\ gt > 0
                 THEN [len |-> gt - i + 1, closing |-> closing,
                       name |-> LowerAll(SubSeq(text, p, q - 1))]
            ELSE NoTag

\* The entity pattern matched at position i: "&", then amp, lt, gt, quot,
\* "#" and decimal digits, or "#x" and hexadecimal digits, then ";".  Gives
\* the length of the match, 0 when there is none.
EntityMatchLen(text, i) ==
    IF i > Len(text) \/ text[i] # "&" THEN 0
    ELSE IF StartsWith(text, i + 1, <<"a","m","p",";">>) THEN 5
    ELSE IF StartsWith(text, i + 1, <<"l","t",";">>) THEN 4
    ELSE IF StartsWith(text, i + 1, <<"g","t",";">>) THEN 4
    ELSE IF StartsWith(text, i + 1, <<"q","u","o","t",";">>) THEN 6
    ELSE IF StartsWith(text, i + 1, <<"#">>)
         THEN LET d == RunLen(text, i + 2, Digits)
                  h == IF StartsWith(text, i + 2, <<"x">>)
                       THEN RunLen(text, i + 3, HexDigits) ELSE 0
              IN  IF d > 0 /\ StartsWith(text, i + 2 + d, <<";">>) THEN d + 3
                  ELSE IF h > 0 /\ StartsWith(text, i + 3 + h, <<";">>) THEN h + 4
                  ELSE 0
    ELSE 0

---------------------------------------------------------------------------
(* sanitize_telegram_html                                                  *)

LT == <<"&","l","t",";">>

GT == <<"&","g","t",";">>

AMP == <<"&","a","m","p",";">>

\* what the "<" branch emits for a "<" that starts no whitelisted tag
EscapeLt == LT

\* a sanitizer whose ">" branch copies the character
EscapeGtCopied == <<">">>

\* what the ">" branch emits
EscapeGt == GT

\* a sanitizer that escapes "&" without the closing ";"
EscapeAmpOpen == <<"&","a","m","p">>

\* what the "&" branch emits for a "&" that starts no entity
EscapeAmp == AMP

\* a sanitizer that passes only open tags through
TagAllowedOpenOnly(m) == m.len > 0 /\ m.name \in ALLOWED_TAGS /\ ~m.closing

\* whether the "<" branch passes the matched tag through
TagAllowed(m) == m.len > 0 /\ m.name \in ALLOWED_TAGS

\* a sanitizer that writes a whitelisted tag out in lowercase
PassTagLowered(text, i, m) == LowerAll(SubSeq(text, i, i + m.len - 1))

\* what the "<" branch appends for a whitelisted tag: tag_match.group(0)
PassTag(text, i, m) == SubSeq(text, i, i + m.len - 1)

\* a sanitizer that steps over the whole of a tag it rejects
RejectAdvanceMatch(m) == IF m.len > 0 THEN m.len ELSE 1

\* how far the "<" branch advances after a "<" it escapes (lines 28, 32)
RejectAdvance(m) == 1

\* a sanitizer that steps one character on after copying a tag
PassAdvanceOne(m) == 1

\* how far the scan moves after a whitelisted tag (line 24)
PassAdvance(m) == m.len

\* one round of the loop (lines 18-47) at index i (1-based): what is
\* appended to result, and how far i advances
SanitizeStep(text, i) ==
    IF text[i] = "<"
    THEN LET m == TagMatch(text, i)
         IN  IF TagAllowed(m)
             THEN [out |-> PassTag(text, i, m), adv |-> PassAdvance(m)]
             ELSE [out |-> EscapeLt, adv |-> RejectAdvance(m)]
    ELSE IF text[i] = ">" THEN [out |-> EscapeGt, adv |-> 1]
    ELSE IF text[i] = "&"
         THEN LET e == EntityMatchLen(text, i)
              IN  IF e > 0
                  THEN [out |-> SubSeq(text, i, i + e - 1), adv |-> e]
                  ELSE [out |-> EscapeAmp, adv |-> 1]
    ELSE [out |-> <<text[i]>>, adv |-> 1]

RECURSIVE SanitizeFrom(_, _)
\* the loop of sanitize_telegram_html from index i (1-based) to the end
SanitizeFrom(text, i) ==
    IF i > Len(text) THEN <<>>
    ELSE LET step == SanitizeStep(text, i)
         IN  step.out \o SanitizeFrom(text, i + step.adv)

sanitize_telegram_html(text) ==
    IF text = <<>> THEN <<>> ELSE SanitizeFrom(text, 1)

---------------------------------------------------------------------------
(* validate_telegram_html                                                  *)

\* a validator that lets a close tag close whatever is open
ClosesAny(stack, name) == stack # <<>>

\* the close-tag test of the validator: the tag closes the innermost open one
ClosesTop(stack, name) == stack # <<>> /\ stack[Len(stack)] = name

RECURSIVE ValidateFrom(_, _, _)
\* tag_pattern.finditer from position i with tag_stack = stack
ValidateFrom(text, i, stack) ==
    IF i > Len(text) THEN Len(stack) = 0
    ELSE LET m == TagMatch(text, i)
         IN  IF m.len = 0 THEN ValidateFrom(text, i + 1, stack)
             ELSE IF m.name \notin ALLOWED_TAGS
                  THEN ValidateFrom(text, i + m.len, stack)
             ELSE IF m.closing
                  THEN IF ~ClosesTop(stack, m.name) THEN FALSE
                       ELSE ValidateFrom(text, i + m.len,
                                         SubSeq(stack, 1, Len(stack) - 1))
             ELSE ValidateFrom(text, i + m.len, Append(stack, m.name))

validate_telegram_html(text) == ValidateFrom(text, 1, <<>>)

---------------------------------------------------------------------------
(* truncate_html                                                           *)

\* the suffix allowance: cut_point = max_length - 50
RESERVE == 50

\* Python's normalisation of the end of text[:e] and of rfind(sub, 0, e):
\* a negative e counts from the end, and the result is clamped to 0..len
SliceEnd(text, e) ==
    IF e < 0 THEN Max(0, Len(text) + e) ELSE Min(e, Len(text))

RECURSIVE LastAtOrBefore(_, _, _)
\* the last 1-based position p <= k with text[p] = c, 0 when there is none
LastAtOrBefore(text, c, k) ==
    IF k <= 0 THEN 0
    ELSE IF text[k] = c THEN k
    ELSE LastAtOrBefore(text, c, k - 1)

\* text.rfind(c, 0, e): a 0-based index, -1 when c is not in text[0:e]
RFind(text, c, e) == LastAtOrBefore(text, c, SliceEnd(text, e)) - 1

\* a truncator that reserves nothing
FirstCutNoReserve(ml) == ml

\* the first value of cut_point (line 79)
FirstCut(ml) == ml - RESERVE

\* cut_point after lines 79-85, as Python holds it (0-based, may be negative)
CutPoint(text, ml) ==
    LET cut_point == FirstCut(ml)
        last_open == RFind(text, "<", cut_point)
        last_close == RFind(text, ">", cut_point)
    IN  IF last_open > last_close THEN last_open ELSE cut_point

\* truncated = text[:cut_point]
Truncated(text, ml) == SubSeq(text, 1, SliceEnd(text, CutPoint(text, ml)))

\* a re-scan that collects the open tags and forgets that tags are closed
ClosesOpenTagIgnored(open_tags, m) == FALSE

\* the test of line 99: the close tag closes the innermost open tag
ClosesOpenTag(open_tags, m) ==
    m.closing /\ open_tags # <<>> /\ open_tags[Len(open_tags)] = m.name

RECURSIVE ValidatorScan(_, _, _)
\* the validator's loop (lines 57-69) from position i with tag_stack =
\* stack: whether it stopped at a close tag (line 66), and the stack it
\* holds when it stops or reaches the end
ValidatorScan(text, i, stack) ==
    IF i > Len(text) THEN [rejected |-> FALSE, stack |-> stack]
    ELSE LET m == TagMatch(text, i)
         IN  IF m.len = 0 THEN ValidatorScan(text, i + 1, stack)
             ELSE IF m.name \notin ALLOWED_TAGS
                  THEN ValidatorScan(text, i + m.len, stack)
             ELSE IF m.closing
                  THEN IF stack = <<>> \/ stack[Len(stack)] # m.name
                       THEN [rejected |-> TRUE, stack |-> stack]
                       ELSE ValidatorScan(text, i + m.len,
                                          SubSeq(stack, 1, Len(stack) - 1))
             ELSE ValidatorScan(text, i + m.len, Append(stack, m.name))

RECURSIVE OpenTagsFrom(_, _, _)
\* the re-scan of the truncated prefix (lines 92-102) from position i
OpenTagsFrom(text, i, open_tags) ==
    IF i > Len(text) THEN open_tags
    ELSE LET m == TagMatch(text, i)
         IN  IF m.len = 0 THEN OpenTagsFrom(text, i + 1, open_tags)
             ELSE IF m.name \notin ALLOWED_TAGS
                  THEN OpenTagsFrom(text, i + m.len, open_tags)
             ELSE IF ClosesOpenTag(open_tags, m)
                  THEN OpenTagsFrom(text, i + m.len,
                                    SubSeq(open_tags, 1, Len(open_tags) - 1))
             ELSE IF ~m.closing
                  THEN OpenTagsFrom(text, i + m.len, Append(open_tags, m.name))
             ELSE OpenTagsFrom(text, i + m.len, open_tags)

OpenTags(text) == OpenTagsFrom(text, 1, <<>>)

RECURSIVE ClosingTagsOutermostFirst(_)
\* a truncator that closes the tags in the order they were opened
ClosingTagsOutermostFirst(open_tags) ==
    IF open_tags = <<>> THEN <<>>
    ELSE <<"<", "/">> \o open_tags[1] \o <<">">>
             \o ClosingTagsOutermostFirst(Tail(open_tags))

RECURSIVE ClosingTags(_)
\* "".join(f"</{tag}>" for tag in reversed(open_tags))
ClosingTags(open_tags) ==
    IF open_tags = <<>> THEN <<>>
    ELSE <<"<", "/">> \o open_tags[Len(open_tags)] \o <<">">>
             \o ClosingTags(SubSeq(open_tags, 1, Len(open_tags) - 1))

Ellipsis == <<".", ".", ".">>

\* a truncator that cuts a text of exactly max_length characters
WithinBudgetStrict(text, ml) == Len(text) < ml

\* the test of line 76
WithinBudget(text, ml) == Len(text) <= ml

truncate_html(text, ml) ==
    IF WithinBudget(text, ml) THEN text
    ELSE LET truncated == Truncated(text, ml)
         IN  truncated \o Ellipsis \o ClosingTags(OpenTags(truncated))

---------------------------------------------------------------------------
(* format_process_report                                                   *)

\* html.escape(c) for one character (quote=True)
EscapeChar(c) ==
    IF c = "&" THEN AMP
    ELSE IF c = "<" THEN LT
    ELSE IF c = ">" THEN GT
    ELSE IF c = "\"" THEN <<"&","q","u","o","t",";">>
    ELSE IF c = "'" THEN <<"&","#","x","2","7",";">>
    ELSE <<c>>

RECURSIVE HtmlEscape(_)
\* html.escape(s)
HtmlEscape(s) ==
    IF s = <<>> THEN <<>> ELSE EscapeChar(Head(s)) \o HtmlEscape(Tail(s))

\* the single-message budget of format_process_report (line 122)
MESSAGE_BUDGET == 4096

ErrorPrefix == <<"E","r","r","o","r",":"," ","<","b",">">>

ErrorSuffix == <<"<","/","b",">">>

Done == <<"D","o","n","e">>

\* a formatter that forwards the sanitized text unvalidated
GatedReportUngated(raw_report, sanitized) ==
    truncate_html(sanitized, MESSAGE_BUDGET)

\* the validation gate of lines 119-122
GatedReport(raw_report, sanitized) ==
    IF ~validate_telegram_html(sanitized)
    THEN HtmlEscape(raw_report)
    ELSE truncate_html(sanitized, MESSAGE_BUDGET)

\* a formatter that looks at the error only when there is no report
HasErrorNoReport(rep) == rep.has_error /\ ~rep.has_report

\* "error" in report (line 111)
HasError(rep) == rep.has_error

format_process_report(rep) ==
    IF HasError(rep)
    THEN ErrorPrefix \o HtmlEscape(rep.error) \o ErrorSuffix
    ELSE IF rep.has_report
    THEN GatedReport(rep.report, sanitize_telegram_html(rep.report))
    ELSE Done

---------------------------------------------------------------------------
(* split_html_report                                                       *)

SeedMarker == <<"<","b",">","S","e","e","d"," ","#">>

RECURSIVE SplitFrom(_, _, _)
\* re.split at every position where the marker starts: the chunks of
\* text[start-1:], i the position being looked at
SplitFrom(text, start, i) ==
    IF i > Len(text) THEN <<SubSeq(text, start, Len(text))>>
    ELSE IF StartsWith(text, i, SeedMarker)
         THEN <<SubSeq(text, start, i - 1)>> \o SplitFrom(text, i, i + 1)
    ELSE SplitFrom(text, start, i + 1)

Chunks(text) == SplitFrom(text, 1, 1)

RECURSIVE Strip(_)
\* str.strip()
Strip(s) ==
    IF s = <<>> THEN s
    ELSE IF s[1] \in WhiteSpace THEN Strip(Tail(s))
    ELSE IF s[Len(s)] \in WhiteSpace THEN Strip(SubSeq(s, 1, Len(s) - 1))
    ELSE s

\* a chunker that lets a piece join only when room is left over
FitsStrict(current, chunk, ml) == Len(current) + Len(chunk) < ml

\* whether the next chunk joins the current segment (line 139)
Fits(current, chunk, ml) == Len(current) + Len(chunk) <= ml

\* a chunker that forgets the segment it closes
FlushNothing(st) == st.parts

\* parts after the current segment is closed (lines 142-143, 146-147)
Flush(st) ==
    IF st.current # <<>> THEN Append(st.parts, Strip(st.current)) ELSE st.parts

RECURSIVE Accumulate(_, _, _, _)
\* the loop of lines 136-147: parts after the chunks from k on, st the
\* parts and the current segment so far
Accumulate(chunks, k, st, ml) ==
    IF k > Len(chunks) THEN Flush(st)
    ELSE LET chunk == chunks[k]
         IN  IF chunk = <<>> THEN Accumulate(chunks, k + 1, st, ml)
             ELSE IF Fits(st.current, chunk, ml)
                  THEN Accumulate(chunks, k + 1,
                           [parts |-> st.parts, current |-> st.current \o chunk], ml)
             ELSE Accumulate(chunks, k + 1,
                      [parts |-> Flush(st), current |-> chunk], ml)

\* the list "parts" of lines 132-147
SplitParts(text, ml) ==
    Accumulate(Chunks(text), 1, [parts |-> <<>>, current |-> <<>>], ml)

\* the post-processing of one part (lines 153-157)
FitPart(part, ml) ==
    IF Len(part) <= ml THEN part ELSE truncate_html(part, ml)

\* a chunker that also falls back when one segment was accumulated
NoPartsOrOne(ps) == Len(ps) <= 1

\* "if not parts" (line 149)
NoParts(ps) == ps = <<>>

split_html_report(text, ml) ==
    IF Len(text) <= ml THEN <<text>>
    ELSE LET ps == SplitParts(text, ml)
         IN  IF NoParts(ps) THEN <<truncate_html(text, ml)>>
             ELSE [k \in 1..Len(ps) |-> FitPart(ps[k], ml)]

---------------------------------------------------------------------------
(* The callers.  A pipeline is the sequence of calls a caller makes, each  *)
(* call taking the current text.                                           *)

NoReport == [has_error |-> FALSE, error |-> <<>>,
             has_report |-> FALSE, report |-> <<>>]

\* a working tree without changes, nothing staged, nothing committed and no
\* git command run
NoVault == [changes |-> FALSE, staged |-> FALSE, commits |-> 0,
            pushed |-> 0, log |-> <<>>]

RECURSIVE Concat(_)
\* "".join(ts)
Concat(ts) == IF ts = <<>> THEN <<>> ELSE Head(ts) \o Concat(Tail(ts))

\* nothing but the formatting core is running
NoCaller ==
    /\ pc = "core"
    /\ raised = "none"
    /\ refs = <<>>
    /\ raw_parts = <<>>
    /\ loop_index = 0
    /\ sends = <<>>
    /\ callers = <<>>
    /\ locals = <<>>
    /\ vault = NoVault

SeqsUpTo(S, n) == UNION {[1..k -> S] : k \in 0..n}

IsPrefix(s, t) == Len(s) <= Len(t) /\ SubSeq(t, 1, Len(s)) = s

\* the calls a pipeline of P may make next
MayCall(P, name) == \E p \in P : IsPrefix(Append(calls, name), p)

Sanitize(P) ==
    /\ MayCall(P, "sanitize")
    /\ arg' = result
    /\ result' = sanitize_telegram_html(result)
    /\ calls' = Append(calls, "sanitize")
    /\ UNCHANGED <<input, valid, parts, report, max_length>>
    /\ UNCHANGED outside

Validate(P) ==
    /\ MayCall(P, "validate")
    /\ arg' = result
    /\ valid' = validate_telegram_html(result)
    /\ calls' = Append(calls, "validate")
    /\ UNCHANGED <<input, result, parts, report, max_length>>
    /\ UNCHANGED outside

Truncate(P) ==
    /\ MayCall(P, "truncate")
    /\ arg' = result
    /\ result' = truncate_html(result, max_length)
    /\ calls' = Append(calls, "truncate")
    /\ UNCHANGED <<input, valid, parts, report, max_length>>
    /\ UNCHANGED outside

Split(P) ==
    /\ MayCall(P, "split")
    /\ arg' = result
    /\ parts' = split_html_report(result, max_length)
    /\ calls' = Append(calls, "split")
    /\ UNCHANGED <<input, result, valid, report, max_length>>
    /\ UNCHANGED outside

Format(P) ==
    /\ MayCall(P, "format")
    /\ arg' = result
    /\ result' = format_process_report(report)
    /\ calls' = Append(calls, "format")
    /\ UNCHANGED <<input, valid, parts, report, max_length>>
    /\ UNCHANGED outside

---------------------------------------------------------------------------
(* The sanitizer's callers: sanitize, sanitize again, validate.            *)

MaxTokens == 4

SanTokens ==
    { <<"<","b",">">>, <<"<","/","b",">">>, <<"<","i",">">>, <<"<","/","i",">">>,
      <<"<","x",">">>, <<"<","b"," ">>, <<"<","B",">">>, <<"<">>, <<">">>,
      <<"&">>, <<"l","t",";">>, <<"#","1",";">> }

\* the texts of the spec's scenarios for the sanitizer and the validator
ScriptScenario ==
    <<"H","e","l","l","o"," ","<","b",">","w","o","r","l","d","<","/","b",
      ">"," ","<","s","c","r","i","p","t",">","e","v","i","l","<","/","s",
      "c","r","i","p","t",">"," ","&"," ","<","3">>

NestedScenario ==
    <<"<","b",">","a","<","i",">","b","<","/","i",">","<","/","b",">">>

CrossingScenario ==
    <<"<","b",">","a","<","i",">","b","<","/","b",">","<","/","i",">">>

SanScenarios == {ScriptScenario, NestedScenario, CrossingScenario}

SanInputs ==
    {Concat(ts) : ts \in SeqsUpTo(SanTokens, MaxTokens)} \cup SanScenarios

SanPipelines ==
    { <<"sanitize", "sanitize">>, <<"sanitize", "validate">>, <<"validate">> }

InitSan ==
    /\ input \in SanInputs
    /\ arg = <<>>
    /\ result = input
    /\ valid = FALSE
    /\ parts = <<>>
    /\ report = NoReport
    /\ max_length = 0
    /\ calls = <<>>
    /\ NoCaller

SanitizeSan == Sanitize(SanPipelines)

ValidateSan == Validate(SanPipelines)

NextSan == SanitizeSan \/ ValidateSan

SpecSan == InitSan /\ [][NextSan]_vars

---------------------------------------------------------------------------
(* Properties of the sanitizer.                                            *)

Special == {"<", ">", "&"}

RECURSIVE BareFrom(_, _)
\* whether text, read from position i as whitelisted tags, recognized
\* entities and single characters, holds a "<", ">" or "&" of its own
BareFrom(text, i) ==
    IF i > Len(text) THEN FALSE
    ELSE LET m == TagMatch(text, i)
             e == EntityMatchLen(text, i)
         IN  IF m.len > 0 /\ m.name \in ALLOWED_TAGS
             THEN BareFrom(text, i + m.len)
             ELSE IF e > 0 THEN BareFrom(text, i + e)
             ELSE IF text[i] \in Special THEN TRUE
             ELSE BareFrom(text, i + 1)

\* the positions of text where something of the shape of a tag marker starts
TagShaped(text) == {j \in 1..Len(text) : TagMatch(text, j).len > 0}

\* text holds a tag marker whose name is not whitelisted
HasForeignTag(text) ==
    \E j \in TagShaped(text) : TagMatch(text, j).name \notin ALLOWED_TAGS

HasAllowedTag(text) ==
    \E j \in TagShaped(text) : TagMatch(text, j).name \in ALLOWED_TAGS

RECURSIVE TagList(_, _)
\* the whitelisted tag markers of text in order, as the scanners meet them
TagList(text, i) ==
    IF i > Len(text) THEN <<>>
    ELSE LET m == TagMatch(text, i)
         IN  IF m.len = 0 THEN TagList(text, i + 1)
             ELSE IF m.name \notin ALLOWED_TAGS THEN TagList(text, i + m.len)
             ELSE <<[closing |-> m.closing, name |-> m.name]>>
                      \o TagList(text, i + m.len)

RECURSIVE Cancels(_)
\* a list of tag markers is correctly nested when deleting adjacent
\* open/close pairs of one name, again and again, leaves nothing
Cancels(tags) ==
    IF tags = <<>> THEN TRUE
    ELSE LET pairs == {k \in 1..(Len(tags) - 1) :
                          /\ ~tags[k].closing
                          /\ tags[k + 1].closing
                          /\ tags[k].name = tags[k + 1].name}
         IN  IF pairs = {} THEN FALSE
             ELSE LET k == CHOOSE j \in pairs : TRUE
                  IN  Cancels(SubSeq(tags, 1, k - 1)
                                  \o SubSeq(tags, k + 2, Len(tags)))

CorrectlyNested(text) == Cancels(TagList(text, 1))

\* C1: escaping totality.  Whatever the input, the sanitizer's output holds
\* no "<", ">" or "&" outside a whitelisted tag or a recognized entity.
EscapingTotality ==
    calls = <<"sanitize">> => ~BareFrom(result, 1)

\* C1 happens: an input with a whitelisted tag and a bare special character
\* outside it went through the sanitizer and came out changed.
EscapingTotalityWitness ==
    /\ calls = <<"sanitize">>
    /\ HasAllowedTag(arg)
    /\ BareFrom(arg, 1)
    /\ result # arg
    /\ HasAllowedTag(result)

\* C2: the sanitizer's output holds no tag outside the whitelist: wherever
\* something of the shape of a tag marker starts in the output, also inside
\* the attribute part of a tag passed through, its name is whitelisted.
NoForeignTagInOutput ==
    calls = <<"sanitize">> => ~HasForeignTag(result)

\* C8: idempotence.  For an input of whitelisted tags and literal text, a
\* second pass of the sanitizer returns its argument, the first pass's
\* output, unchanged.
SanitizeIdempotent ==
    (calls = <<"sanitize", "sanitize">> /\ ~HasForeignTag(input))
        => result = arg

\* C8 happens: the first pass escaped something of such an input, and the
\* second pass ran on the escaped text.
SanitizeIdempotentWitness ==
    /\ calls = <<"sanitize", "sanitize">>
    /\ ~HasForeignTag(input)
    /\ HasAllowedTag(input)
    /\ arg # input
    /\ result = arg

\* C9: validator soundness.  For an input whose tag markers are all
\* whitelisted and correctly nested, the validator accepts the sanitizer's
\* output.
ValidatorSoundness ==
    (/\ calls = <<"sanitize", "validate">>
     /\ ~HasForeignTag(input)
     /\ CorrectlyNested(input))
        => valid

\* C9 happens: an input with correctly nested whitelisted tags and a
\* character the sanitizer escapes went through the sanitizer, and its
\* output was validated.
ValidatorSoundnessWitness ==
    /\ calls = <<"sanitize", "validate">>
    /\ ~HasForeignTag(input)
    /\ CorrectlyNested(input)
    /\ Len(TagList(input, 1)) >= 2
    /\ arg # input
    /\ valid

RECURSIVE RawTags(_, _)
\* the whitelisted tag markers of text as they are written, in order, as
\* the validator and the truncator meet them
RawTags(text, i) ==
    IF i > Len(text) THEN <<>>
    ELSE LET m == TagMatch(text, i)
         IN  IF m.len = 0 THEN RawTags(text, i + 1)
             ELSE IF m.name \notin ALLOWED_TAGS THEN RawTags(text, i + m.len)
             ELSE <<SubSeq(text, i, i + m.len - 1)>> \o RawTags(text, i + m.len)

RECURSIVE MetTags(_, _)
\* the whitelisted tag markers of text as they are written, in order, as a
\* scan that goes on one character after anything else meets them
MetTags(text, i) ==
    IF i > Len(text) THEN <<>>
    ELSE LET m == TagMatch(text, i)
         IN  IF m.len > 0 /\ m.name \in ALLOWED_TAGS
             THEN <<SubSeq(text, i, i + m.len - 1)>> \o MetTags(text, i + m.len)
             ELSE MetTags(text, i + 1)

\* the letters of the name of a tag marker, as written
NameLetters(tag) ==
    LET p == IF tag[2] = "/" THEN 3 ELSE 2
    IN  SubSeq(tag, p, p + RunLen(tag, p, Letters) - 1)

HasUpperTag(text) ==
    \E k \in 1..Len(MetTags(text, 1)) :
        LET n == NameLetters(MetTags(text, 1)[k]) IN n # LowerAll(n)

\* C11 as stated: the whitelisted tags of the sanitizer's output are in
\* lowercase, however they are written in the input.
TagsLowercaseOnOutput ==
    calls = <<"sanitize">>
        => \A k \in 1..Len(RawTags(result, 1)) :
               LET n == NameLetters(RawTags(result, 1)[k]) IN n = LowerAll(n)

\* C11 as amended: the whitelisted tags of the input appear in the output
\* as they are written, in their order, upper and mixed case included.
TagsVerbatimOnOutput ==
    calls = <<"sanitize">> => RawTags(result, 1) = MetTags(arg, 1)

\* C11 happens: an input with a whitelisted tag in upper case and something
\* to escape went through the sanitizer, and the tag came out in upper case.
TagsVerbatimOnOutputWitness ==
    /\ calls = <<"sanitize">>
    /\ HasUpperTag(arg)
    /\ result # arg
    /\ HasUpperTag(result)

\* the sanitizer's answer to the script scenario
ScriptScenarioSanitized ==
    <<"H","e","l","l","o"," ","<","b",">","w","o","r","l","d","<","/","b",
      ">"," ","&","l","t",";","s","c","r","i","p","t","&","g","t",";","e",
      "v","i","l","&","l","t",";","/","s","c","r","i","p","t","&","g","t",
      ";"," ","&","a","m","p",";"," ","&","l","t",";","3">>

\* the "<" at position i of text starts no whitelisted tag
Rejected(text, i) ==
    /\ i <= Len(text)
    /\ text[i] = "<"
    /\ ~(TagMatch(text, i).len > 0 /\ TagMatch(text, i).name \in ALLOWED_TAGS)

\* C17: escaping of rejected tags, one character at a time.  When the input
\* starts with a "<" that starts no whitelisted tag, the output is "&lt;"
\* and then what the sanitizer makes of the rest of the input from its
\* second character on, by itself: nothing of the rest is swallowed.  The
\* script scenario gives the text of the spec.
EscapesOneCharacter ==
    calls = <<"sanitize">>
        => /\ Rejected(arg, 1)
                => result = LT \o sanitize_telegram_html(Tail(arg))
           /\ arg = ScriptScenario => result = ScriptScenarioSanitized

\* C17 happens: an input that starts with a foreign tag, followed by a
\* whitelisted tag, went through the sanitizer.
EscapesOneCharacterWitness ==
    /\ calls = <<"sanitize">>
    /\ Rejected(arg, 1)
    /\ TagMatch(arg, 1).len > 0
    /\ HasAllowedTag(Tail(arg))
    /\ IsPrefix(LT, result)
    /\ HasAllowedTag(result)

\* C18: strict LIFO matching.  The validator accepts a text exactly when
\* its whitelisted tag markers, in order, are correctly nested: each close
\* tag closes the innermost tag open, and nothing stays open.  The nested
\* scenario is accepted, the crossing one is not.
ValidatorStrictLIFO ==
    calls = <<"validate">>
        => /\ valid = CorrectlyNested(arg)
           /\ arg = NestedScenario => valid
           /\ arg = CrossingScenario => ~valid

\* C18 happens: the validator met two tags of different names that cross,
\* and rejected the text.
ValidatorStrictLIFOWitness ==
    /\ calls = <<"validate">>
    /\ Len(TagList(arg, 1)) = 4
    /\ \A k \in 1..2 : ~TagList(arg, 1)[k].closing
    /\ \A k \in 3..4 : TagList(arg, 1)[k].closing
    /\ TagList(arg, 1)[1].name = TagList(arg, 1)[3].name
    /\ TagList(arg, 1)[2].name = TagList(arg, 1)[4].name
    /\ TagList(arg, 1)[1].name # TagList(arg, 1)[2].name
    /\ ~valid

---------------------------------------------------------------------------
(* The truncator's callers: truncate, then validate the result.  An input  *)
(* is a few tokens with, or without, one long run of plain text in it, so  *)
(* that it is longer than the budget and the cut falls among the tokens.   *)

MaxCut == 8

FillLen == 60

Filler == [k \in 1..FillLen |-> "y"]

TruncTokens ==
    { <<"<","b",">">>, <<"<","/","b",">">>, <<"<","a"," ","<",">">>,
      <<"<","/","a",">">>, <<"t">> }

\* a run of plain text as long as the reserve: with a few tokens the text
\* is about as long as the budget
ReservePad == [k \in 1..RESERVE |-> "y"]

Pads == {<<>>, ReservePad, Filler}

TruncInputs ==
    { Concat(SubSeq(ts, 1, k)) \o pad \o Concat(SubSeq(ts, k + 1, Len(ts))) :
        <<ts, k, pad>> \in
            { x \in SeqsUpTo(TruncTokens, MaxTokens) \X (0..MaxTokens)
                        \X Pads : x[2] <= Len(x[1]) } }

BelowReserve == 2

TruncBudgets == (RESERVE - BelowReserve)..(RESERVE + MaxCut)

TruncPipelines == { <<"truncate", "validate">> }

InitTrunc ==
    /\ input \in TruncInputs
    /\ arg = <<>>
    /\ result = input
    /\ valid = FALSE
    /\ parts = <<>>
    /\ report = NoReport
    /\ max_length \in TruncBudgets
    /\ calls = <<>>
    /\ NoCaller

TruncateTrunc == Truncate(TruncPipelines)

ValidateTrunc == Validate(TruncPipelines)

NextTrunc == TruncateTrunc \/ ValidateTrunc

SpecTrunc == InitTrunc /\ [][NextTrunc]_vars

---------------------------------------------------------------------------
(* Properties of the truncator.                                            *)

\* markup text as the sanitizer leaves it and the validator accepts it:
\* what format_process_report hands to truncate_html
ValidMarkup(text) ==
    /\ sanitize_telegram_html(text) = text
    /\ validate_telegram_html(text)

\* C3: truncation yields balanced markup.  The validator accepts
\* truncate_html(x, max_length) for every markup text x (stated here for the
\* x the validator accepts before the cut) and every max_length.
TruncateBalanced ==
    (calls = <<"truncate", "validate">> /\ ValidMarkup(input)) => valid

RECURSIVE IsClosingTags(_)
\* s is a run of closing tags of whitelisted names, and nothing else
IsClosingTags(s) ==
    IF s = <<>> THEN TRUE
    ELSE LET m == TagMatch(s, 1)
         IN  /\ m.len > 0
             /\ m.closing
             /\ m.name \in ALLOWED_TAGS
             /\ IsClosingTags(SubSeq(s, m.len + 1, Len(s)))

\* r is the first k characters of x, the ellipsis and closing tags
KeptAt(x, r, k) ==
    /\ k <= Len(x)
    /\ k + 3 <= Len(r)
    /\ SubSeq(r, 1, k) = SubSeq(x, 1, k)
    /\ SubSeq(r, k + 1, k + 3) = Ellipsis
    /\ IsClosingTags(SubSeq(r, k + 4, Len(r)))

BoldOpen == <<"<","b",">">>

BoldClose == <<"<","/","b",">">>

\* C13: the truncator is the identity within budget.  A text of at most
\* max_length characters comes back unchanged, balanced or not.
IdentityWithinBudget ==
    (calls = <<"truncate">> /\ Len(arg) <= max_length) => result = arg

\* C13 happens: a text of exactly max_length characters, with a tag that is
\* never closed, went through the truncator.
IdentityWithinBudgetWitness ==
    /\ calls = <<"truncate">>
    /\ Len(arg) = max_length
    /\ ~validate_telegram_html(arg)
    /\ OpenTags(arg) # <<>>
    /\ result = arg

RECURSIVE TagSpans(_, _)
\* the first and last positions of the whitelisted tag markers of text
TagSpans(text, i) ==
    IF i > Len(text) THEN {}
    ELSE LET m == TagMatch(text, i)
         IN  IF m.len = 0 THEN TagSpans(text, i + 1)
             ELSE IF m.name \notin ALLOWED_TAGS THEN TagSpans(text, i + m.len)
             ELSE {<<i, i + m.len - 1>>} \cup TagSpans(text, i + m.len)

\* keeping the first k characters of text cuts a tag marker in two
CutsInsideTag(text, k) ==
    \E span \in TagSpans(text, 1) : span[1] <= k /\ k < span[2]

\* C19: the truncator never cuts inside a tag marker.  For a sanitized text
\* longer than max_length the prefix the truncator keeps ends before the
\* "<" or after the ">" of every tag marker of the text.
CutOutsideTags ==
    (/\ calls = <<"truncate">>
     /\ Len(arg) > max_length
     /\ sanitize_telegram_html(arg) = arg)
        => ~CutsInsideTag(arg, Len(Truncated(arg, max_length)))

RECURSIVE LeftOpen(_)
\* the names of the tags a list of tag markers leaves open, outermost first:
\* take the first close tag; if the tag before it is the open tag of its
\* name the two go, otherwise the close tag goes alone; go on until no close
\* tag is left
LeftOpen(tags) ==
    LET closes == {k \in 1..Len(tags) : tags[k].closing}
    IN  IF closes = {} THEN [k \in 1..Len(tags) |-> tags[k].name]
        ELSE LET c == CHOOSE k \in closes : \A j \in closes : k <= j
             IN  IF c > 1 /\ tags[c - 1].name = tags[c].name
                 THEN LeftOpen(SubSeq(tags, 1, c - 2)
                                   \o SubSeq(tags, c + 1, Len(tags)))
                 ELSE LeftOpen(SubSeq(tags, 1, c - 1)
                                   \o SubSeq(tags, c + 1, Len(tags)))

\* one closing tag for each name, the last name first
ClosersInnermostFirst(names) ==
    Concat([k \in 1..Len(names) |->
               <<"<", "/">> \o names[Len(names) + 1 - k] \o <<">">>])

\* the spec's scenario for the truncator, with the long run of the model
BoldScenario == BoldOpen \o Filler \o BoldClose

\* C20: the shape of a truncated result.  For a text longer than max_length
\* the result is a prefix of the text, the ellipsis, and one closing tag for
\* each tag the prefix leaves open, innermost first, and nothing else; the
\* scenario's result, for a budget that leaves the cut after the <b>, has
\* at most max_length characters and ends with the ellipsis and </b>.
TruncatedShape ==
    (calls = <<"truncate">> /\ Len(arg) > max_length)
        => /\ \E k \in 0..Len(arg) :
                  /\ k + 3 <= Len(result)
                  /\ SubSeq(result, k + 1, k + 3) = Ellipsis
                  /\ SubSeq(result, 1, k) = SubSeq(arg, 1, k)
                  /\ SubSeq(result, k + 4, Len(result)) =
                         ClosersInnermostFirst(
                             LeftOpen(TagList(SubSeq(arg, 1, k), 1)))
           /\ (arg = BoldScenario /\ max_length >= RESERVE + Len(BoldOpen))
                  => /\ Len(result) <= max_length
                     /\ SubSeq(result, Len(result) - 6, Len(result))
                            = Ellipsis \o BoldClose

\* C20 happens: a text was cut, for a budget above the reserve, where two
\* tags of different names were open, and both were closed.
TruncatedShapeWitness ==
    /\ calls = <<"truncate">>
    /\ Len(arg) > max_length
    /\ max_length > RESERVE
    /\ Len(OpenTags(Truncated(arg, max_length))) = 2
    /\ OpenTags(Truncated(arg, max_length))[1]
           # OpenTags(Truncated(arg, max_length))[2]
    /\ Len(result) > Len(Truncated(arg, max_length)) + 3

---------------------------------------------------------------------------
(* The chunker's callers.  An input is a few tokens (the head of a record, *)
(* tags, white space) with, or without, one long run in it.                *)

NestDepth == 7

CodeOpen == <<"<","c","o","d","e",">">>

CodeNest == Concat([k \in 1..NestDepth |-> CodeOpen])

\* the head of one record: the marker, a number, the end of the bold tag
SeedHeader == SeedMarker \o <<"1","<","/","b",">">>

MaxSplitTokens == 3

SplitTokens ==
    { SeedHeader, <<"<","i",">">>, <<"<","/","i",">">>, <<" ">> }

\* what an input may hold besides its tokens: nothing, a long run of plain
\* text, or that run inside nested open tags
LongRuns == { <<>>, Filler, CodeNest \o Filler }

SplitInputs ==
    { Concat(SubSeq(ts, 1, k)) \o run \o Concat(SubSeq(ts, k + 1, Len(ts))) :
        <<ts, k, run>> \in
            { x \in SeqsUpTo(SplitTokens, MaxSplitTokens) \X (0..MaxSplitTokens)
                        \X LongRuns : x[2] <= Len(x[1]) } }

\* budgets: none at all and less, from one record head up, for two record
\* heads, at and above the reserve, and the least one that keeps the whole
\* run of nested tags
SplitBudgets ==
    {-1, 0}
        \cup (Len(SeedHeader)..(Len(SeedHeader) + MaxCut))
        \cup {2 * Len(SeedHeader) + 2}
        \cup {RESERVE, RESERVE + MaxCut, RESERVE + Len(CodeNest)}

SplitPipelines == { <<"split">> }

InitSplit ==
    /\ input \in SplitInputs
    /\ arg = <<>>
    /\ result = input
    /\ valid = FALSE
    /\ parts = <<>>
    /\ report = NoReport
    /\ max_length \in SplitBudgets
    /\ calls = <<>>
    /\ NoCaller

SplitSplit == Split(SplitPipelines)

NextSplit == SplitSplit

SpecSplit == InitSplit /\ [][NextSplit]_vars

---------------------------------------------------------------------------
(* Properties of the chunker.                                              *)

\* C4: segment size bound.  Every segment split_html_report returns has at
\* most max_length characters, the truncated ones too (stated here for the
\* budgets of at least the reserve, for which the cut point is not negative).
SegmentsWithinBudget ==
    (calls = <<"split">> /\ max_length >= RESERVE)
        => \A k \in 1..Len(parts) : Len(parts[k]) <= max_length

\* no segment goes through truncate_html: every piece delimited at the
\* record marker has at most ml characters after trimming (pieces that are
\* joined stay within ml, a piece that stands alone is trimmed)
NothingTruncated(x, ml) ==
    LET cs == Chunks(x)
    IN  \A k \in 1..Len(cs) : Len(Strip(cs[k])) <= ml

\* C5: segment independence.  For a balanced markup text x every segment is
\* balanced by itself, also when a tag of x encloses a record marker (stated
\* here for the texts none of whose segments is truncated, so that only the
\* splitting at the markers is in play).
SegmentsBalanced ==
    (/\ calls = <<"split">>
     /\ ValidMarkup(arg)
     /\ NothingTruncated(arg, max_length))
        => \A k \in 1..Len(parts) : validate_telegram_html(parts[k])

RECURSIVE Reconstructs(_, _, _, _)
\* x from position i on is the segments from the k-th on in order, with
\* nothing but white space before, between and after them
Reconstructs(x, i, segs, k) ==
    LET j == i + RunLen(x, i, WhiteSpace)
    IN  IF k > Len(segs) THEN j > Len(x)
        ELSE LET seg == Strip(segs[k])
             IN  /\ StartsWith(x, j, seg)
                 /\ Reconstructs(x, j + Len(seg), segs, k + 1)

\* C6 as stated: for every x and budget the segments, put together in
\* order, are x up to the white space trimmed at their ends.
ChunkReconstruction ==
    calls = <<"split">> => Reconstructs(arg, 1, parts, 1)

\* C6 as amended: the same whenever no segment had to be truncated.
ChunkReconstructionUntruncated ==
    (calls = <<"split">> /\ NothingTruncated(arg, max_length))
        => Reconstructs(arg, 1, parts, 1)

\* C6 happens: a text longer than the budget was split at a record marker
\* into segments that fit, white space was trimmed between them, and the
\* segments give the text back.
ChunkReconstructionWitness ==
    /\ calls = <<"split">>
    /\ Len(arg) > max_length
    /\ NothingTruncated(arg, max_length)
    /\ Len(parts) >= 2
    /\ \A k \in 1..Len(parts) : parts[k] # <<>>
    /\ Len(Concat(parts)) < Len(arg)
    /\ Reconstructs(arg, 1, parts, 1)

---------------------------------------------------------------------------
(* The handlers' call of format_process_report on the record the           *)
(* processor returned.                                                     *)

FmtTokens ==
    { <<"<","b",">">>, <<"<","/","b",">">>, <<"<","i",">">>, <<"<","x",">">>,
      <<"<">>, <<">">>, <<"&">>, <<"l","t",";">>, <<"\"">>, <<"t">> }

FmtInputs == {Concat(ts) : ts \in SeqsUpTo(FmtTokens, MaxTokens)}

\* the text of the other key of a record that has both keys
SideText == <<"<","i",">","r","<","/","i",">">>

\* the records made of x: no key, a report, an error, both keys
ReportsOf(x) ==
    { [has_error |-> FALSE, error |-> <<>>, has_report |-> hr,
       report |-> IF hr THEN x ELSE <<>>] : hr \in BOOLEAN }
    \cup
    { [has_error |-> TRUE, error |-> x, has_report |-> hr,
       report |-> IF hr THEN SideText ELSE <<>>] : hr \in BOOLEAN }
    \cup
    { [has_error |-> TRUE, error |-> SideText, has_report |-> TRUE,
       report |-> x] }

FmtPipelines == { <<"format">> }

InitFmt ==
    /\ input \in FmtInputs
    /\ arg = <<>>
    /\ result = input
    /\ valid = FALSE
    /\ parts = <<>>
    /\ report \in ReportsOf(input)
    /\ max_length = MESSAGE_BUDGET
    /\ calls = <<>>
    /\ NoCaller

FormatFmt == Format(FmtPipelines)

NextFmt == FormatFmt

SpecFmt == InitFmt /\ [][NextFmt]_vars

---------------------------------------------------------------------------
(* Properties of format_process_report.                                    *)

\* the record carries a report and no error
ReportOnly == report.has_report /\ ~report.has_error

\* C7: the validation gate.  For a record with a report and no error the
\* sanitized text, truncated to the message budget, is returned only if the
\* validator accepts it; otherwise the result is the raw report fully
\* escaped, which holds no "<" and so no tag marker.
ValidationGate ==
    (calls = <<"format">> /\ ReportOnly)
        => LET raw == report.report
               sanitized == sanitize_telegram_html(raw)
           IN  IF validate_telegram_html(sanitized)
               THEN result = truncate_html(sanitized, MESSAGE_BUDGET)
               ELSE /\ result = HtmlEscape(raw)
                    /\ TagShaped(result) = {}
                    /\ \A k \in 1..Len(result) : result[k] \notin {"<", ">"}

\* C7 happens: a report with a whitelisted tag failed validation after
\* sanitization and came back escaped.
ValidationGateWitness ==
    /\ calls = <<"format">>
    /\ ReportOnly
    /\ HasAllowedTag(report.report)
    /\ ~validate_telegram_html(sanitize_telegram_html(report.report))
    /\ result = HtmlEscape(report.report)
    /\ result # sanitize_telegram_html(report.report)

\* the entities html.escape writes, with the characters they stand for
EscapedAs ==
    { <<AMP, "&">>, <<LT, "<">>, <<GT, ">">>,
      <<(<<"&","q","u","o","t",";">>), "\"">>,
      <<(<<"&","#","x","2","7",";">>), "'">> }

RECURSIVE FullyEscaped(_, _)
\* s from position i on holds no "<", ">", quote or "&" but in these entities
FullyEscaped(s, i) ==
    IF i > Len(s) THEN TRUE
    ELSE IF \E e \in EscapedAs : StartsWith(s, i, e[1])
         THEN LET e == CHOOSE f \in EscapedAs : StartsWith(s, i, f[1])
              IN  FullyEscaped(s, i + Len(e[1]))
    ELSE s[i] \notin {"<", ">", "&", "\"", "'"} /\ FullyEscaped(s, i + 1)

RECURSIVE Unescape(_, _)
\* s from position i on, fully escaped, read back
Unescape(s, i) ==
    IF i > Len(s) THEN <<>>
    ELSE IF \E e \in EscapedAs : StartsWith(s, i, e[1])
         THEN LET e == CHOOSE f \in EscapedAs : StartsWith(s, i, f[1])
              IN  <<e[2]>> \o Unescape(s, i + Len(e[1]))
    ELSE <<s[i]>> \o Unescape(s, i + 1)

\* r is a label without markup, then body between one <b> and one </b>
ErrorLineOf(r, body) ==
    \E k \in 0..Len(r) :
        /\ \A j \in 1..k : r[j] \notin {"<", ">", "&"}
        /\ r = SubSeq(r, 1, k) \o BoldOpen \o body \o BoldClose

\* C12: the error path.  Whenever the record has an error, with or without
\* a report, the result is the error text fully escaped (read back, it is
\* the error text) between one <b> and one </b>, after the label; the
\* report, whatever it is, has no part in the result.
ErrorPath ==
    (calls = <<"format">> /\ report.has_error)
        => \E n \in 0..Len(result) :
               LET body == SubSeq(result, Len(result) - Len(BoldClose) - n + 1,
                                  Len(result) - Len(BoldClose))
               IN  /\ n + Len(BoldClose) <= Len(result)
                   /\ FullyEscaped(body, 1)
                   /\ Unescape(body, 1) = report.error
                   /\ ErrorLineOf(result, body)
                   /\ Len(TagList(result, 1)) = 2

\* C12 happens: a record with an error that needs escaping and a report
\* was formatted, and neither the report nor its sanitized form came back.
ErrorPathWitness ==
    /\ calls = <<"format">>
    /\ report.has_error
    /\ report.has_report
    /\ HasAllowedTag(report.error)
    /\ HasAllowedTag(report.report)
    /\ report.report # report.error
    /\ HtmlEscape(report.error) # report.error
    /\ validate_telegram_html(result)

---------------------------------------------------------------------------
(* generate_content_seeds and _collect_raw_material                        *)
(* (src/src/content_bot/services/processor.py), which cmd_content runs in  *)
(* a thread and awaits.  A result record is modelled by its "error" and    *)
(* "report" keys; the texts of the files are modelled by what reading them *)
(* does.                                                                   *)

\* the reference files of lines 217-221, in the order they are loaded
REFERENCES == <<"skill", "tone_of_voice", "strategy", "icp", "tone_examples">>

\* _collect_raw_material(days=7)
DAYS == 7

\* the most files the model puts in the meetings and the thoughts folder
MaxFiles == 2

\* what read_text() of a file that exists does: gives text, gives nothing
\* but white space, raises OSError, raises UnicodeDecodeError
ReadOutcomes == {"text", "blank", "oserror", "decode_error"}

\* the exception a failed read raises
ExceptionOf(o) == IF o = "oserror" THEN "OSError" ELSE "UnicodeDecodeError"

NoEntries ==
    <<"N","o"," ","e","n","t","r","i","e","s"," ","f","o","r"," ","t","h",
      "e"," ","l","a","s","t"," ","7"," ","d","a","y","s"," ","t","o"," ",
      "g","e","n","e","r","a","t","e"," ","s","e","e","d","s"," ","f","r",
      "o","m">>

GenerationFailed ==
    <<"C","o","n","t","e","n","t"," ","s","e","e","d","s"," ","g","e","n",
      "e","r","a","t","i","o","n"," ","f","a","i","l","e","d">>

TimedOut ==
    <<"C","o","n","t","e","n","t"," ","s","e","e","d","s"," ","g","e","n",
      "e","r","a","t","i","o","n"," ","t","i","m","e","d"," ","o","u","t">>

NotInstalled ==
    <<"C","l","a","u","d","e"," ","C","L","I"," ","n","o","t"," ","i","n",
      "s","t","a","l","l","e","d">>

\* str(e) of another exception, and a non-empty stderr
OtherFailure == <<"b","o","o","m">>

ErrorRecord(msg) == [has_error |-> TRUE, error |-> msg,
                     has_report |-> FALSE, report |-> <<>>]

ReportRecord(output) == [has_error |-> FALSE, error |-> <<>>,
                         has_report |-> TRUE, report |-> output]

\* an exception leaves generate_content_seeds
Raise(e) ==
    /\ pc' = "raised"
    /\ raised' = e

\* one of _load_content_seeds_skill ... _load_tone_examples (lines 58-91,
\* called at lines 217-221): the file is absent, or it is read, outside any
\* try
LoadReference ==
    /\ pc = "load"
    /\ \E o \in ReadOutcomes \cup {"absent"} :
          IF o \in {"oserror", "decode_error"}
          THEN /\ Raise(ExceptionOf(o))
               /\ UNCHANGED refs
          ELSE /\ refs' = Append(refs, o = "text")
               /\ pc' = IF Len(refs) + 1 = Len(REFERENCES) THEN "daily" ELSE pc
               /\ UNCHANGED raised
    /\ UNCHANGED <<input, arg, result, valid, parts, report, max_length,
                   calls, raw_parts, loop_index, sends>>
    /\ UNCHANGED threads

\* one round of the loop over the days (lines 142-148): the day's file is
\* absent (so it is when the folder is), or it is read, outside any try
ReadDaily ==
    /\ pc = "daily"
    /\ \E o \in ReadOutcomes \cup {"absent"} :
          IF o \in {"oserror", "decode_error"}
          THEN /\ Raise(ExceptionOf(o))
               /\ UNCHANGED <<raw_parts, loop_index>>
          ELSE /\ raw_parts' = IF o = "text" THEN Append(raw_parts, "DAILY")
                                ELSE raw_parts
               /\ IF loop_index + 1 = DAYS
                  THEN pc' = "meetings" /\ loop_index' = 0
                  ELSE pc' = pc /\ loop_index' = loop_index + 1
               /\ UNCHANGED raised
    /\ UNCHANGED <<input, arg, result, valid, parts, report, max_length,
                   calls, refs, sends>>
    /\ UNCHANGED threads

\* what a file of the meetings or thoughts folder does to the loop: it is
\* skipped (a summary file, a name that is no date or an old one, white
\* space only), it is read, it is long and summarized or its cached summary
\* cannot be read (_summarize_meeting, lines 95-101, in no try of its own),
\* or reading raises
FileOutcomes ==
    ReadOutcomes \cup {"skipped", "long_summarized", "long_cache_oserror",
                       "long_cache_decode_error"}

\* the try of lines 157-170 and 177-186 catches ValueError only:
\* UnicodeDecodeError is one, OSError is not
CaughtByValueError(o) == o \in {"decode_error", "long_cache_decode_error"}

EscapesValueError(o) == o \in {"oserror", "long_cache_oserror"}

\* one round of the loop over a folder (lines 154-170, 176-186)
ReadFile(at, label, outcomes) ==
    /\ pc = at
    /\ loop_index < MaxFiles
    /\ \E o \in outcomes :
          IF EscapesValueError(o)
          THEN /\ Raise("OSError")
               /\ UNCHANGED <<raw_parts, loop_index>>
          ELSE /\ raw_parts' = IF o \in {"text", "long_summarized"}
                                THEN Append(raw_parts, label)
                                ELSE raw_parts
               /\ loop_index' = loop_index + 1
               /\ UNCHANGED <<pc, raised>>
    /\ UNCHANGED <<input, arg, result, valid, parts, report, max_length,
                   calls, refs, sends>>
    /\ UNCHANGED threads

\* the loop over a folder ends: no file is left, or there is no folder
EndFiles(at, next) ==
    /\ pc = at
    /\ pc' = next
    /\ loop_index' = 0
    /\ UNCHANGED <<input, arg, result, valid, parts, report, max_length,
                   calls, raised, refs, raw_parts, sends>>
    /\ UNCHANGED threads

ReadMeeting == ReadFile("meetings", "MEETING", FileOutcomes)

EndMeetings == EndFiles("meetings", "thoughts")

\* a thought is never summarized (lines 176-186)
ReadThought ==
    ReadFile("thoughts", "THOUGHT", ReadOutcomes \cup {"skipped"})

EndThoughts == EndFiles("thoughts", "collected")

\* lines 224-228
NoMaterial ==
    /\ pc = "collected"
    /\ raw_parts = <<>>
    /\ report' = ErrorRecord(NoEntries)
    /\ pc' = "returned"
    /\ UNCHANGED <<input, arg, result, valid, parts, max_length, calls,
                   raised, refs, raw_parts, loop_index, sends>>
    /\ UNCHANGED threads

\* what the subprocess prints on success
Outputs == {<<>>, SideText}

\* the try of lines 261-297 up to the output: the subprocess exits with a
\* code other than 0, with or without text on stderr, times out, is not
\* installed, something else is raised, or it succeeds
RunClaude ==
    /\ pc = "collected"
    /\ raw_parts # <<>>
    /\ \/ /\ \E msg \in {OtherFailure, GenerationFailed, TimedOut,
                           NotInstalled} :
                report' = ErrorRecord(msg)
          /\ pc' = "returned"
          /\ UNCHANGED result
       \/ /\ \E output \in Outputs : result' = output
          /\ pc' = "save"
          /\ UNCHANGED report
    /\ UNCHANGED <<input, arg, valid, parts, max_length, calls, raised,
                   refs, raw_parts, loop_index, sends>>
    /\ UNCHANGED threads

\* lines 284-289: the output is saved, or saving fails and is logged, and
\* the report is returned
SaveSeeds ==
    /\ pc = "save"
    /\ \E saved \in BOOLEAN : report' = ReportRecord(result)
    /\ pc' = "returned"
    /\ UNCHANGED <<input, arg, result, valid, parts, max_length, calls,
                   raised, refs, raw_parts, loop_index, sends>>
    /\ UNCHANGED threads

InitSeeds ==
    /\ input = <<>>
    /\ arg = <<>>
    /\ result = <<>>
    /\ valid = FALSE
    /\ parts = <<>>
    /\ report = NoReport
    /\ max_length = 0
    /\ calls = <<>>
    /\ pc = "load"
    /\ raised = "none"
    /\ refs = <<>>
    /\ raw_parts = <<>>
    /\ loop_index = 0
    /\ sends = <<>>
    /\ callers = <<>>
    /\ locals = <<>>
    /\ vault = NoVault

NextSeeds ==
    \/ LoadReference
    \/ ReadDaily
    \/ ReadMeeting
    \/ EndMeetings
    \/ ReadThought
    \/ EndThoughts
    \/ NoMaterial
    \/ RunClaude
    \/ SaveSeeds

SpecSeeds == InitSeeds /\ [][NextSeeds]_vars

---------------------------------------------------------------------------
(* Properties of generate_content_seeds.                                   *)

\* C14: upstream failures become result records.  Whatever the subprocess
\* does and whatever reading the files does, generate_content_seeds raises
\* nothing to the handler, and the record it returns has an error or a
\* report.
FailuresBecomeRecords ==
    /\ raised = "none"
    /\ pc = "returned" => (report.has_error \/ report.has_report)

---------------------------------------------------------------------------
(* The delivery of the formatted report by cmd_content                     *)
(* (src/src/content_bot/bot/handlers/content.py, lines 93-104) and by      *)
(* cmd_plan (content_plan.py, lines 89-100), which are the same code.  The *)
(* handlers pass no budget to split_html_report; the model draws the       *)
(* budget so that a text of a few record heads is split.                   *)

SendInputs == {Concat(ts) : ts \in SeqsUpTo(SplitTokens, MaxSplitTokens)}

SendBudgets ==
    {Len(SeedHeader), Len(SeedHeader) + 1, 2 * Len(SeedHeader) + 2}

\* one outbound call: the segment, how it is sent, and whether the call
\* returned (the message is out) or raised
Attempt(k, by, plain, ok) ==
    [k |-> k, text |-> parts[k], by |-> by, plain |-> plain, ok |-> ok]

\* parts[0], the segment that replaces the status message, counted from 1
EditedIndex == 1

\* a loop over all of parts, the first segment included
FirstAnswerIndexAll == EditedIndex

\* the first segment of "for part in parts[1:]", counted from 1
FirstAnswerIndex == 2

\* where the handler goes after segment k is out
AfterSegment(k) ==
    /\ loop_index' = Max(k + 1, FirstAnswerIndex)
    /\ pc' = IF Max(k + 1, FirstAnswerIndex) > Len(parts)
             THEN "done" ELSE "answer"

\* parts = split_html_report(formatted)
SplitReport ==
    /\ pc = "split"
    /\ arg' = result
    /\ parts' = split_html_report(result, max_length)
    /\ calls' = Append(calls, "split")
    /\ pc' = "edit"
    /\ loop_index' = EditedIndex
    /\ UNCHANGED <<input, result, valid, report, max_length, raised, refs,
                   raw_parts, sends>>
    /\ UNCHANGED threads

\* await status_msg.edit_text(parts[0]), which returns or raises
EditFirst ==
    /\ pc = "edit"
    /\ \E ok \in BOOLEAN :
          /\ sends' = Append(sends, Attempt(EditedIndex, "edit", FALSE, ok))
          /\ IF ok THEN AfterSegment(0)
             ELSE pc' = "edit_plain" /\ UNCHANGED loop_index
    /\ UNCHANGED <<input, arg, result, valid, parts, report, max_length,
                   calls, raised, refs, raw_parts>>
    /\ UNCHANGED threads

\* except Exception: await status_msg.edit_text(parts[0], parse_mode=None),
\* in no try: what it raises leaves the handler
EditFirstPlain ==
    /\ pc = "edit_plain"
    /\ \E ok \in BOOLEAN :
          /\ sends' = Append(sends, Attempt(EditedIndex, "edit", TRUE, ok))
          /\ IF ok THEN AfterSegment(0) /\ UNCHANGED raised
             ELSE Raise("Exception") /\ UNCHANGED loop_index
    /\ UNCHANGED <<input, arg, result, valid, parts, report, max_length,
                   calls, refs, raw_parts>>
    /\ UNCHANGED threads

\* await message.answer(part)
Answer ==
    /\ pc = "answer"
    /\ \E ok \in BOOLEAN :
          /\ sends' = Append(sends, Attempt(loop_index, "answer", FALSE, ok))
          /\ IF ok THEN AfterSegment(loop_index)
             ELSE pc' = "answer_plain" /\ UNCHANGED loop_index
    /\ UNCHANGED <<input, arg, result, valid, parts, report, max_length,
                   calls, raised, refs, raw_parts>>
    /\ UNCHANGED threads

\* except Exception: await message.answer(part, parse_mode=None)
AnswerPlain ==
    /\ pc = "answer_plain"
    /\ \E ok \in BOOLEAN :
          /\ sends' = Append(sends, Attempt(loop_index, "answer", TRUE, ok))
          /\ IF ok THEN AfterSegment(loop_index) /\ UNCHANGED raised
             ELSE Raise("Exception") /\ UNCHANGED loop_index
    /\ UNCHANGED <<input, arg, result, valid, parts, report, max_length,
                   calls, refs, raw_parts>>
    /\ UNCHANGED threads

InitSend ==
    /\ input \in SendInputs
    /\ arg = <<>>
    /\ result = input
    /\ valid = FALSE
    /\ parts = <<>>
    /\ report = NoReport
    /\ max_length \in SendBudgets
    /\ calls = <<>>
    /\ pc = "split"
    /\ raised = "none"
    /\ refs = <<>>
    /\ raw_parts = <<>>
    /\ loop_index = 0
    /\ sends = <<>>
    /\ callers = <<>>
    /\ locals = <<>>
    /\ vault = NoVault

NextSend ==
    \/ SplitReport
    \/ EditFirst
    \/ EditFirstPlain
    \/ Answer
    \/ AnswerPlain

SpecSend == InitSend /\ [][NextSend]_vars

---------------------------------------------------------------------------
(* Properties of the delivery.                                             *)

Returned(a) == a.ok

\* the calls that returned, in order
Delivered == SelectSeq(sends, Returned)

\* the messages out are the first segments, in order, each once, the first
\* by editing the status message and the others as new messages
DeliveredInOrder ==
    \A j \in 1..Len(Delivered) :
        /\ j <= Len(parts)
        /\ Delivered[j].k = j
        /\ Delivered[j].text = parts[j]
        /\ Delivered[j].by = IF j = 1 THEN "edit" ELSE "answer"

\* a plain-text send follows the failed formatted send of the same segment,
\* and a failed formatted send is followed by nothing else
PlainAfterFailure ==
    /\ \A j \in 1..Len(sends) :
           sends[j].plain
               => /\ j > 1
                  /\ sends[j - 1].k = sends[j].k
                  /\ ~sends[j - 1].plain
                  /\ ~sends[j - 1].ok
    /\ \A j \in 1..(Len(sends) - 1) :
           (~sends[j].plain /\ ~sends[j].ok)
               => sends[j + 1].plain /\ sends[j + 1].k = sends[j].k

---------------------------------------------------------------------------
(* Several callers of the formatting core at once                          *)
(* (src/src/content_bot/bot/formatters.py).  Each caller makes one call;   *)
(* a call runs one statement or one round of a loop at a time, and the     *)
(* callers' steps interleave in any order.  Every name a function assigns  *)
(* is a local of the call (lines 15-16, 54-55, 79-90, 132-135, 152,        *)
(* 112-117); the one module-level name, ALLOWED_TAGS (line 7), is only     *)
(* read.  The calls format_process_report and split_html_report make are   *)
(* taken as one step of the calling function.                              *)

NumCallers == 2

Callers == 1..NumCallers

Job(fn, text, ml, rep) ==
    [fn |-> fn, text |-> text, max_length |-> ml, report |-> rep]

NoJob == Job("none", <<>>, 0, NoReport)

\* the calls the callers may make
ConcJobs ==
    { Job("sanitize", <<"<","b",">","&","<","x",">">>, 0, NoReport),
      Job("validate", BoldOpen \o <<"<","i",">">> \o BoldClose, 0, NoReport),
      Job("validate", BoldOpen \o BoldClose, 0, NoReport),
      Job("truncate", BoldOpen \o <<"<","i",">">> \o Filler,
          RESERVE + Len(BoldOpen) + 3, NoReport),
      Job("split", SeedHeader \o <<" ">> \o SeedHeader \o <<"<","i",">">>,
          Len(SeedHeader) + 1, NoReport),
      Job("format", <<>>, 0, ErrorRecord(BoldOpen)),
      Job("format", <<>>, 0, ReportRecord(SideText)),
      Job("format", <<>>, 0, ReportRecord(BoldOpen)) }

\* the locals of a call that has assigned none yet
NoLocals ==
    [text |-> <<>>, max_length |-> 0, report |-> NoReport,
     result |-> <<>>, i |-> 1,
     tag_stack |-> <<>>, pos |-> 1,
     truncated |-> <<>>, open_tags |-> <<>>,
     chunks |-> <<>>, k |-> 1, current |-> <<>>, parts |-> <<>>,
     sanitized |-> <<>>]

\* functions whose names are module-level: every call uses the same ones
LocalsOfShared(c) == 1

\* where the locals of caller c's call are: in the call's own frame
LocalsOf(c) == c

\* what the call returns when nothing else runs
Alone(job) ==
    CASE job.fn = "sanitize" -> sanitize_telegram_html(job.text)
      [] job.fn = "validate" -> validate_telegram_html(job.text)
      [] job.fn = "truncate" -> truncate_html(job.text, job.max_length)
      [] job.fn = "split" -> split_html_report(job.text, job.max_length)
      [] job.fn = "format" -> format_process_report(job.report)

Running(d) == callers[d].at \notin {"idle", "done"}

\* caller c's call moves to "at"; a step taken while another call is in
\* progress marks both calls as overlapped
Goto(c, at, returned) ==
    callers' =
        [d \in Callers |->
            IF d = c
            THEN [callers[c] EXCEPT
                    !.at = at, !.returned = returned,
                    !.overlapped = @ \/ \E e \in Callers \ {c} : Running(e)]
            ELSE [callers[d] EXCEPT !.overlapped = @ \/ Running(d)]]

Return(c, value) ==
    /\ Goto(c, "done", value)
    /\ UNCHANGED locals

\* the locals of caller c's call become L
Assign(c, L) == locals' = [locals EXCEPT ![LocalsOf(c)] = L]

single == <<input, arg, result, valid, parts, report, max_length, calls,
            pc, raised, refs, raw_parts, loop_index, sends, vault>>

RECURSIVE NextMatch(_, _)
\* the start of the next match of tag_pattern.finditer at or after p, 0
\* when there is none
NextMatch(text, p) ==
    IF p > Len(text) THEN 0
    ELSE IF TagMatch(text, p).len > 0 THEN p
    ELSE NextMatch(text, p + 1)

\* a caller calls one of the functions: the arguments are bound in a new
\* frame
Call(c) ==
    /\ callers[c].at = "idle"
    /\ \E job \in ConcJobs :
          /\ callers' =
                [d \in Callers |->
                    IF d = c
                    THEN [job |-> job, at |-> job.fn, returned |-> <<>>,
                          overlapped |-> \E e \in Callers \ {c} : Running(e)]
                    ELSE [callers[d] EXCEPT !.overlapped = @ \/ Running(d)]]
          /\ Assign(c, [NoLocals EXCEPT !.text = job.text,
                                        !.max_length = job.max_length,
                                        !.report = job.report])
    /\ UNCHANGED single

\* sanitize_telegram_html, lines 12-16
SanitizeEnter(c) ==
    /\ callers[c].at = "sanitize"
    /\ LET L == locals[LocalsOf(c)]
       IN  IF L.text = <<>>
           THEN Return(c, <<>>)
           ELSE /\ Assign(c, [L EXCEPT !.result = <<>>, !.i = 1])
                /\ Goto(c, "sanitize_loop", <<>>)
    /\ UNCHANGED single

\* one round of the loop of lines 17-47, or line 49
SanitizeRound(c) ==
    /\ callers[c].at = "sanitize_loop"
    /\ LET L == locals[LocalsOf(c)]
       IN  IF L.i <= Len(L.text)
           THEN LET step == SanitizeStep(L.text, L.i)
                IN  /\ Assign(c, [L EXCEPT !.result = @ \o step.out,
                                           !.i = @ + step.adv])
                    /\ Goto(c, "sanitize_loop", <<>>)
           ELSE Return(c, L.result)
    /\ UNCHANGED single

\* validate_telegram_html, lines 54-55
ValidateEnter(c) ==
    /\ callers[c].at = "validate"
    /\ Assign(c, [locals[LocalsOf(c)] EXCEPT !.tag_stack = <<>>, !.pos = 1])
    /\ Goto(c, "validate_loop", <<>>)
    /\ UNCHANGED single

\* one round of the loop of lines 57-69, or line 71
ValidateRound(c) ==
    /\ callers[c].at = "validate_loop"
    /\ LET L == locals[LocalsOf(c)]
           at == NextMatch(L.text, L.pos)
           m == TagMatch(L.text, at)
           on == [L EXCEPT !.pos = at + m.len]
       IN  IF at = 0 THEN Return(c, Len(L.tag_stack) = 0)
           ELSE IF m.name \notin ALLOWED_TAGS
                THEN Assign(c, on) /\ Goto(c, "validate_loop", <<>>)
           ELSE IF m.closing
                THEN IF ~ClosesTop(L.tag_stack, m.name)
                     THEN Return(c, FALSE)
                     ELSE /\ Assign(c, [on EXCEPT !.tag_stack =
                                           SubSeq(@, 1, Len(@) - 1)])
                          /\ Goto(c, "validate_loop", <<>>)
           ELSE /\ Assign(c, [on EXCEPT !.tag_stack = Append(@, m.name)])
                /\ Goto(c, "validate_loop", <<>>)
    /\ UNCHANGED single

\* truncate_html, lines 76-90
TruncateEnter(c) ==
    /\ callers[c].at = "truncate"
    /\ LET L == locals[LocalsOf(c)]
       IN  IF WithinBudget(L.text, L.max_length)
           THEN Return(c, L.text)
           ELSE /\ Assign(c, [L EXCEPT
                                !.truncated = Truncated(L.text, L.max_length),
                                !.open_tags = <<>>, !.pos = 1])
                /\ Goto(c, "truncate_loop", <<>>)
    /\ UNCHANGED single

\* one round of the loop of lines 92-102, or lines 104-106
TruncateRound(c) ==
    /\ callers[c].at = "truncate_loop"
    /\ LET L == locals[LocalsOf(c)]
           at == NextMatch(L.truncated, L.pos)
           m == TagMatch(L.truncated, at)
           on == [L EXCEPT !.pos = at + m.len]
       IN  IF at = 0
           THEN Return(c, L.truncated \o Ellipsis \o ClosingTags(L.open_tags))
           ELSE /\ Goto(c, "truncate_loop", <<>>)
                /\ IF m.name \notin ALLOWED_TAGS THEN Assign(c, on)
                   ELSE IF m.closing /\ ClosesTop(L.open_tags, m.name)
                        THEN Assign(c, [on EXCEPT !.open_tags =
                                           SubSeq(@, 1, Len(@) - 1)])
                   ELSE IF ~m.closing
                        THEN Assign(c, [on EXCEPT !.open_tags =
                                           Append(@, m.name)])
                   ELSE Assign(c, on)
    /\ UNCHANGED single

\* split_html_report, lines 129-135
SplitEnter(c) ==
    /\ callers[c].at = "split"
    /\ LET L == locals[LocalsOf(c)]
       IN  IF Len(L.text) <= L.max_length
           THEN Return(c, <<L.text>>)
           ELSE /\ Assign(c, [L EXCEPT !.parts = <<>>,
                                       !.chunks = Chunks(L.text),
                                       !.k = 1, !.current = <<>>])
                /\ Goto(c, "split_loop", <<>>)
    /\ UNCHANGED single

\* one round of the loop of lines 136-144, or lines 146-147
SplitRound(c) ==
    /\ callers[c].at = "split_loop"
    /\ LET L == locals[LocalsOf(c)]
           st == [parts |-> L.parts, current |-> L.current]
       IN  IF L.k > Len(L.chunks)
           THEN /\ Assign(c, [L EXCEPT !.parts = Flush(st)])
                /\ Goto(c, "split_fit", <<>>)
           ELSE LET chunk == L.chunks[L.k]
                    on == [L EXCEPT !.k = @ + 1]
                IN  /\ Goto(c, "split_loop", <<>>)
                    /\ IF chunk = <<>> THEN Assign(c, on)
                       ELSE IF Fits(L.current, chunk, L.max_length)
                            THEN Assign(c, [on EXCEPT !.current = @ \o chunk])
                       ELSE Assign(c, [on EXCEPT !.parts = Flush(st),
                                                 !.current = chunk])
    /\ UNCHANGED single

\* lines 149-159
SplitFit(c) ==
    /\ callers[c].at = "split_fit"
    /\ LET L == locals[LocalsOf(c)]
       IN  IF NoParts(L.parts)
           THEN Return(c, <<truncate_html(L.text, L.max_length)>>)
           ELSE Return(c, [j \in 1..Len(L.parts) |->
                              FitPart(L.parts[j], L.max_length)])
    /\ UNCHANGED single

\* format_process_report, lines 111-117 and 124
FormatEnter(c) ==
    /\ callers[c].at = "format"
    /\ LET L == locals[LocalsOf(c)]
       IN  IF HasError(L.report)
           THEN Return(c, ErrorPrefix \o HtmlEscape(L.report.error)
                              \o ErrorSuffix)
           ELSE IF L.report.has_report
           THEN /\ Assign(c, [L EXCEPT !.sanitized =
                                 sanitize_telegram_html(L.report.report)])
                /\ Goto(c, "format_gate", <<>>)
           ELSE Return(c, Done)
    /\ UNCHANGED single

\* lines 119-120
FormatGate(c) ==
    /\ callers[c].at = "format_gate"
    /\ LET L == locals[LocalsOf(c)]
       IN  IF ~validate_telegram_html(L.sanitized)
           THEN Return(c, HtmlEscape(L.report.report))
           ELSE Goto(c, "format_truncate", <<>>) /\ UNCHANGED locals
    /\ UNCHANGED single

\* line 122
FormatTruncate(c) ==
    /\ callers[c].at = "format_truncate"
    /\ Return(c, truncate_html(locals[LocalsOf(c)].sanitized, MESSAGE_BUDGET))
    /\ UNCHANGED single

InitConc ==
    /\ input = <<>>
    /\ arg = <<>>
    /\ result = <<>>
    /\ valid = FALSE
    /\ parts = <<>>
    /\ report = NoReport
    /\ max_length = 0
    /\ calls = <<>>
    /\ pc = "core"
    /\ raised = "none"
    /\ refs = <<>>
    /\ raw_parts = <<>>
    /\ loop_index = 0
    /\ sends = <<>>
    /\ callers = [c \in Callers |->
                    [job |-> NoJob, at |-> "idle", returned |-> <<>>,
                     overlapped |-> FALSE]]
    /\ locals = [f \in Callers |-> NoLocals]
    /\ vault = NoVault

NextConc ==
    \E c \in Callers :
        \/ Call(c)
        \/ SanitizeEnter(c)
        \/ SanitizeRound(c)
        \/ ValidateEnter(c)
        \/ ValidateRound(c)
        \/ TruncateEnter(c)
        \/ TruncateRound(c)
        \/ SplitEnter(c)
        \/ SplitRound(c)
        \/ SplitFit(c)
        \/ FormatEnter(c)
        \/ FormatGate(c)
        \/ FormatTruncate(c)

SpecConc == InitConc /\ [][NextConc]_vars

---------------------------------------------------------------------------
(* Properties of concurrent calls.                                         *)

\* C16: the formatting core is stateless.  However the steps of several
\* callers' calls interleave, each call that has returned returned what the
\* same call returns when it runs alone on the same arguments.
CallsIndependent ==
    \A c \in Callers :
        callers[c].at = "done"
            => callers[c].returned = Alone(callers[c].job)

\* C16 happens: two calls of the same function on different arguments ran
\* interleaved, each took steps while the other was in progress, and they
\* returned different things.
CallsIndependentWitness ==
    \E c, d \in Callers :
        /\ c # d
        /\ callers[c].at = "done" /\ callers[d].at = "done"
        /\ callers[c].overlapped /\ callers[d].overlapped
        /\ callers[c].job.fn = callers[d].job.fn
        /\ callers[c].job.fn \in {"validate", "format"}
        /\ callers[c].returned # callers[d].returned

---------------------------------------------------------------------------
(* Further properties of the chunker (specification SpecSplit).            *)

NonEmpty(s) == s # <<>>

\* the pieces the loop of lines 136-144 looks at: the non-empty chunks
Pieces(x) == SelectSeq(Chunks(x), NonEmpty)

\* the first piece of the group piece k is in, when the groups end after
\* the pieces of B
GroupStart(B, k) ==
    LET before == {b \in B : b < k}
    IN  IF before = {} THEN 1
        ELSE (CHOOSE b \in before : \A e \in before : e <= b) + 1

\* the pieces from a to b, put together
Joined(ps, a, b) == Concat(SubSeq(ps, a, b))

\* a group ends after piece k exactly when the next piece does not fit in
\* what the group holds
IsGreedy(ps, B, ml) ==
    \A k \in 1..(Len(ps) - 1) :
        k \in B <=> Len(Joined(ps, GroupStart(B, k), k)) + Len(ps[k + 1]) > ml

\* the pieces that end a group, the last piece included, in order
RECURSIVE GroupEnds(_, _, _)
GroupEnds(B, k, n) ==
    IF k > n THEN <<>>
    ELSE IF k \in B \/ k = n THEN <<k>> \o GroupEnds(B, k + 1, n)
    ELSE GroupEnds(B, k + 1, n)

\* the segments of a grouping: each group trimmed, then made to fit
SegmentsOf(ps, B, ml) ==
    LET ends == GroupEnds(B, 1, Len(ps))
    IN  [j \in 1..Len(ends) |->
            FitPart(Strip(Joined(ps, GroupStart(B, ends[j]), ends[j])), ml)]

\* one record: the marker, a number, the end of the bold tag, some text
RecordOf(d) ==
    SeedMarker \o <<d, "<", "/", "b", ">", " ", "t", "e", "x", "t", "\n">>

ThreeRecords == RecordOf("1") \o RecordOf("2") \o RecordOf("3")

\* a budget that holds two of the records and not three, as 4000 does for
\* records of 1500 characters
TwoRecordsBudget == 2 * Len(RecordOf("1")) + Len(RecordOf("1")) \div 2

\* C21: greedy accumulation.  The pieces delimited at the record marker are
\* taken in order, each lies in exactly one segment, a segment ends after a
\* piece exactly when the next piece would not fit in it, and the segments
\* returned are these groups, trimmed (and made to fit); stated for the
\* texts that have a piece.  Three records of
\* one size under a budget that holds two of them give two segments: two
\* records, then one.
GreedyAccumulation ==
    /\ (calls = <<"split">> /\ Len(arg) > max_length /\ Pieces(arg) # <<>>)
          => LET ps == Pieces(arg)
             IN  \E B \in SUBSET (1..(Len(ps) - 1)) :
                    /\ IsGreedy(ps, B, max_length)
                    /\ parts = SegmentsOf(ps, B, max_length)
    /\ split_html_report(ThreeRecords, TwoRecordsBudget)
          = << Strip(RecordOf("1") \o RecordOf("2")), Strip(RecordOf("3")) >>

\* C21 happens: a text of three record heads was split under a budget that
\* holds two of them exactly: two segments, the first of two pieces.
GreedyAccumulationWitness ==
    /\ calls = <<"split">>
    /\ Len(arg) > max_length
    /\ Len(Pieces(arg)) = 3
    /\ Len(Pieces(arg)[1]) + Len(Pieces(arg)[2]) = max_length
    /\ Len(parts) = 2
    /\ parts[1] = Pieces(arg)[1] \o Pieces(arg)[2]
    /\ parts[2] = Pieces(arg)[3]

\* the call took the fallback of lines 149-150
FallbackTaken(x, ml) == Len(x) > ml /\ NoParts(SplitParts(x, ml))

\* C25: split_html_report never returns an empty list.  For every text and
\* every budget of 0 or more the list has an element, so that parts[0]
\* exists; and the one truncate_html call over the whole text is the result
\* only when the loop accumulated no piece.
NeverEmptyList ==
    calls = <<"split">>
        => /\ max_length >= 0 => Len(parts) >= 1
           /\ FallbackTaken(arg, max_length)
                 => /\ Pieces(arg) = <<>>
                    /\ parts = <<truncate_html(arg, max_length)>>

\* C25 happens: a text with a record in it was split under the budget 0,
\* and pieces were accumulated.
NeverEmptyListWitness ==
    /\ calls = <<"split">>
    /\ max_length = 0
    /\ Len(Pieces(arg)) >= 2
    /\ ~FallbackTaken(arg, max_length)
    /\ Len(parts) >= 2

\* C26: no empty segment is emitted.  For every non-empty text longer than
\* the budget every segment split_html_report returns is a non-empty
\* string, a piece of white space closed as a segment of its own included.
NoEmptySegment ==
    (calls = <<"split">> /\ arg # <<>> /\ Len(arg) > max_length)
        => \A k \in 1..Len(parts) : parts[k] # <<>>

---------------------------------------------------------------------------
(* Further properties of the truncator (specification SpecTrunc).          *)

\* the validator's scan of the prefix the last truncate_html call kept
PrefixScan == ValidatorScan(Truncated(arg, max_length), 1, <<>>)

\* C22 as stated: the truncator's re-scan is the validator's stack
\* algorithm.  For every cut prefix the list of open tags truncate_html
\* computes is the tag stack the validator's scan holds after the prefix,
\* whatever close tags the prefix has.
RescanIsValidatorStack ==
    (calls = <<"truncate">> /\ Len(arg) > max_length)
        => OpenTags(Truncated(arg, max_length)) = PrefixScan.stack

\* C22 as amended: the two scans agree on every cut prefix in which each
\* close tag closes the innermost open tag: there the list of open tags is
\* the validator's stack, and the validator accepts the prefix exactly when
\* the list is empty.  At a close tag that closes nothing the validator
\* stops and answers no, while the re-scan passes over the tag and goes on.
RescanIsValidatorStackUntilMismatch ==
    (calls = <<"truncate">> /\ Len(arg) > max_length)
        => /\ ~PrefixScan.rejected
                 => OpenTags(Truncated(arg, max_length)) = PrefixScan.stack
           /\ validate_telegram_html(Truncated(arg, max_length))
                 = (~PrefixScan.rejected /\ PrefixScan.stack = <<>>)

\* C22 happens: the prefix kept has an open tag, a pair that is closed, and
\* no close tag that closes nothing.
RescanIsValidatorStackWitness ==
    /\ calls = <<"truncate">>
    /\ Len(arg) > max_length
    /\ ~PrefixScan.rejected
    /\ Len(TagList(Truncated(arg, max_length), 1)) >= 2
    /\ \E k \in 1..Len(Truncated(arg, max_length)) :
           TagMatch(Truncated(arg, max_length), k).closing
    /\ OpenTags(Truncated(arg, max_length)) # <<>>

---------------------------------------------------------------------------
(* Further properties of the sanitizer (specification SpecSan).            *)

\* how far the scan is to move at index i: over a whitelisted tag, over an
\* entity, otherwise over one character
DueAdvance(text, i) ==
    IF text[i] = "<" /\ TagAllowed(TagMatch(text, i))
    THEN TagMatch(text, i).len
    ELSE IF text[i] = "&" /\ EntityMatchLen(text, i) > 0
    THEN EntityMatchLen(text, i)
    ELSE 1

RECURSIVE ScanIndexes(_, _)
\* the values the scan index i takes (1-based), in order
ScanIndexes(text, i) ==
    IF i > Len(text) THEN <<i>>
    ELSE <<i>> \o ScanIndexes(text, i + Max(SanitizeStep(text, i).adv, 1))

IsText(s) == DOMAIN s = 1..Len(s) /\ \A k \in 1..Len(s) : Len(<<s[k]>>) = 1

\* C24: the sanitizer is total and terminates.  At whatever index the loop
\* stands, the round moves the index on, by the length of the whitelisted
\* tag or of the entity that starts there and by one otherwise, and never
\* past the end of the input; so the indexes of the scan increase strictly
\* up to the end, where a text is returned.  The empty input gives the
\* empty text.
ScanAdvances ==
    calls = <<"sanitize">>
        => /\ \A i \in 1..Len(arg) :
                 LET adv == SanitizeStep(arg, i).adv
                 IN  /\ adv >= 1
                     /\ adv = DueAdvance(arg, i)
                     /\ i + adv <= Len(arg) + 1
           /\ LET is == ScanIndexes(arg, 1)
              IN  /\ \A k \in 1..(Len(is) - 1) : is[k] < is[k + 1]
                  /\ is[Len(is)] = Len(arg) + 1
           /\ IsText(result)
           /\ arg = <<>> => result = <<>>

\* C24 happens: the scan went over a whitelisted tag and over an entity in
\* one move each, and over a rejected "<" by one character.
ScanAdvancesWitness ==
    /\ calls = <<"sanitize">>
    /\ \E i \in 1..Len(arg) :
           arg[i] = "<" /\ SanitizeStep(arg, i).adv > 1
    /\ \E i \in 1..Len(arg) :
           arg[i] = "&" /\ SanitizeStep(arg, i).adv > 1
    /\ \E i \in 1..Len(arg) : Rejected(arg, i) /\ TagMatch(arg, i).len > 0
    /\ Len(ScanIndexes(arg, 1)) < Len(arg)

---------------------------------------------------------------------------
(* The delivery pipeline on reports of full size: cmd_content's            *)
(* format_process_report(report) (content.py line 88) and                  *)
(* split_html_report(formatted) (line 93) with the budgets of the code,    *)
(* 4096 and 4000, and, beside it, a caller that hands the formatter's      *)
(* result to the validator.  The functions run one round of a loop at a   *)
(* time (the rounds over a run of plain characters taken together, and     *)
(* a search of the text for a character or a pattern taken as one step);   *)
(* "locals" holds the locals of the function that is running.              *)

\* the default max_length of split_html_report (line 127)
SPLIT_BUDGET == 4000

Run(c, n) == [k \in 1..n |-> c]

LinkOpen == <<"<","a"," ","h","r","e","f","=","\"","<","\"",">">>

LinkClose == <<"<","/","a",">">>

\* a report the validator accepts, with a link whose attribute holds a "<"
\* where the truncator's first cut falls
LongLink ==
    BoldOpen \o Run("y", MESSAGE_BUDGET - RESERVE - Len(BoldOpen) - 10)
        \o LinkOpen \o Run("z", 2 * RESERVE) \o LinkClose \o BoldClose

\* one record of n characters: the head, a run of text, a line end
LongRecord(d, n) ==
    SeedMarker \o <<d, "<", "/", "b", ">", " ">>
        \o Run("x", n - Len(SeedMarker) - 7) \o <<"\n">>

\* three records of 1500 characters
ThreeLongRecords ==
    LongRecord("1", 3 * (SPLIT_BUDGET \div 8))
        \o LongRecord("2", 3 * (SPLIT_BUDGET \div 8))
        \o LongRecord("3", 3 * (SPLIT_BUDGET \div 8))

\* the records the processor hands over
DeliverReports ==
    { ReportRecord(LongLink), ReportRecord(ThreeLongRecords),
      ReportRecord(RecordOf("1") \o RecordOf("2")),
      ReportRecord(SideText), ReportRecord(BoldOpen),
      ErrorRecord(BoldOpen), NoReport }

core == <<input, arg, max_length, raised, refs, raw_parts, loop_index,
          sends, callers, vault>>

\* format_process_report returns
FormatReturns(text) ==
    /\ result' = text
    /\ calls' = Append(calls, "format")
    /\ pc' = "formatted"
    /\ locals' = <<>>

\* format_process_report, lines 111-117 and 124, and lines 12-16 of the
\* sanitizer it calls
FormatBegin ==
    /\ pc = "format"
    /\ IF HasError(report)
       THEN FormatReturns(ErrorPrefix \o HtmlEscape(report.error)
                              \o ErrorSuffix)
       ELSE IF report.has_report
       THEN /\ locals' = [text |-> report.report, result |-> <<>>, i |-> 1]
            /\ pc' = "sanitize"
            /\ UNCHANGED <<result, calls>>
       ELSE FormatReturns(Done)
    /\ UNCHANGED <<valid, parts, report>>
    /\ UNCHANGED core

\* the first position from p on that holds a character of S, the position
\* after the text when there is none
NextAt(text, p, S) ==
    LET qs == {q \in p..Len(text) : text[q] \in S}
    IN  IF qs = {} THEN Len(text) + 1
        ELSE CHOOSE q \in qs : \A r \in qs : q <= r

\* the last position up to e that holds the character c, 0 when there is
\* none
LastAt(text, c, e) ==
    LET qs == {q \in 1..e : text[q] = c}
    IN  IF qs = {} THEN 0
        ELSE CHOOSE q \in qs : \A r \in qs : r <= q

\* the first position from p on where the record marker starts, the
\* position after the text when there is none
NextMarker(text, p) ==
    LET qs == {q \in p..Len(text) : StartsWith(text, q, SeedMarker)}
    IN  IF qs = {} THEN Len(text) + 1
        ELSE CHOOSE q \in qs : \A r \in qs : q <= r

\* the rounds of the sanitizer's loop (lines 17-47) over a run of plain
\* characters, or one round at a "<", ">" or "&", or its return (line 49)
\* and the validator's first lines (54-55)
SanitizeRoundOf ==
    /\ pc = "sanitize"
    /\ IF locals.i <= Len(locals.text)
       THEN LET n == NextAt(locals.text, locals.i, {"<", ">", "&"})
                step == SanitizeStep(locals.text, locals.i)
            IN  /\ locals' =
                      IF n > locals.i
                      THEN [locals EXCEPT
                              !.result = @ \o SubSeq(locals.text, locals.i,
                                                     n - 1),
                              !.i = n]
                      ELSE [locals EXCEPT !.result = @ \o step.out,
                                          !.i = @ + step.adv]
                /\ UNCHANGED pc
       ELSE /\ locals' = [text |-> locals.result, tag_stack |-> <<>>,
                          pos |-> 1]
            /\ pc' = "gate"
    /\ UNCHANGED <<result, valid, parts, report, calls>>
    /\ UNCHANGED core

\* what follows the validator's return: in format_process_report lines
\* 119-122 and line 76 of the truncator; in the caller that validates the
\* formatter's result, nothing more
ValidatorReturns(b) ==
    /\ valid' = b
    /\ IF pc = "gate"
       THEN IF ~b
            THEN FormatReturns(HtmlEscape(report.report))
            ELSE IF WithinBudget(locals.text, MESSAGE_BUDGET)
            THEN FormatReturns(locals.text)
            ELSE /\ locals' = [text |-> locals.text,
                               max_length |-> MESSAGE_BUDGET, back |-> <<>>]
                 /\ pc' = "cut"
                 /\ UNCHANGED <<result, calls>>
       ELSE /\ calls' = Append(calls, "validate")
            /\ pc' = "validated"
            /\ locals' = <<>>
            /\ UNCHANGED result

\* one round of the validator's loop (lines 57-69): the search for the
\* next match of the pattern from the next "<" on, and what is done with
\* the match; or its return (line 71)
ValidateAt ==
    /\ pc \in {"gate", "check"}
    /\ LET q == NextAt(locals.text, locals.pos, {"<"})
           m == TagMatch(locals.text, q)
           on == [locals EXCEPT !.pos = q + m.len]
           goes(L) == /\ locals' = L
                      /\ UNCHANGED <<pc, result, valid, calls>>
       IN  IF q > Len(locals.text)
           THEN ValidatorReturns(Len(locals.tag_stack) = 0)
           ELSE IF m.len = 0 THEN goes([locals EXCEPT !.pos = q + 1])
           ELSE IF m.name \notin ALLOWED_TAGS THEN goes(on)
           ELSE IF m.closing
                THEN IF ~ClosesTop(locals.tag_stack, m.name)
                     THEN ValidatorReturns(FALSE)
                     ELSE goes([on EXCEPT !.tag_stack =
                                  SubSeq(@, 1, Len(@) - 1)])
           ELSE goes([on EXCEPT !.tag_stack = Append(@, m.name)])
    /\ UNCHANGED <<parts, report>>
    /\ UNCHANGED core

\* lines 79-90 of the truncator, called by format_process_report ("cut")
\* or by split_html_report ("part_cut", "back" being the caller's locals):
\* the cut point, the two rfind calls (their results counted from 0, -1 for
\* none), and the prefix kept
TruncateCut ==
    /\ pc \in {"cut", "part_cut"}
    /\ LET first == FirstCut(locals.max_length)
           e == SliceEnd(locals.text, first)
           last_open == LastAt(locals.text, "<", e) - 1
           last_close == LastAt(locals.text, ">", e) - 1
           cut_point == IF last_open > last_close THEN last_open ELSE first
       IN  locals' = [truncated |->
                         SubSeq(locals.text, 1,
                                SliceEnd(locals.text, cut_point)),
                      open_tags |-> <<>>, pos |-> 1, back |-> locals.back]
    /\ pc' = IF pc = "cut" THEN "rescan" ELSE "part_rescan"
    /\ UNCHANGED <<result, valid, parts, report, calls>>
    /\ UNCHANGED core

\* truncate_html returns: to format_process_report, which returns it
\* (line 122), or to the loop of split_html_report (line 157, or line 150)
TruncatorReturns(text) ==
    IF pc = "rescan" THEN FormatReturns(text)
    ELSE /\ locals' = [locals.back EXCEPT !.result = Append(@, text),
                                          !.k = @ + 1]
         /\ pc' = "fit"
         /\ UNCHANGED <<result, calls>>

\* one round of the truncator's loop (lines 92-102), or lines 104-106
RescanAt ==
    /\ pc \in {"rescan", "part_rescan"}
    /\ LET q == NextAt(locals.truncated, locals.pos, {"<"})
           m == TagMatch(locals.truncated, q)
           on == [locals EXCEPT !.pos = q + m.len]
           goes(L) == /\ locals' = L
                      /\ UNCHANGED <<pc, result, calls>>
       IN  IF q > Len(locals.truncated)
           THEN TruncatorReturns(locals.truncated \o Ellipsis
                                     \o ClosingTags(locals.open_tags))
           ELSE IF m.len = 0 THEN goes([locals EXCEPT !.pos = q + 1])
           ELSE IF m.name \notin ALLOWED_TAGS THEN goes(on)
           ELSE IF ClosesOpenTag(locals.open_tags, m)
                THEN goes([on EXCEPT !.open_tags = SubSeq(@, 1, Len(@) - 1)])
           ELSE IF ~m.closing
                THEN goes([on EXCEPT !.open_tags = Append(@, m.name)])
           ELSE goes(on)
    /\ UNCHANGED <<valid, parts, report>>
    /\ UNCHANGED core

\* a caller hands the formatter's result to validate_telegram_html
CheckBegin ==
    /\ pc = "formatted"
    /\ locals' = [text |-> result, tag_stack |-> <<>>, pos |-> 1]
    /\ pc' = "check"
    /\ UNCHANGED <<result, valid, parts, report, calls>>
    /\ UNCHANGED core

\* split_html_report returns
SplitReturns(ps) ==
    /\ parts' = ps
    /\ calls' = Append(calls, "split")
    /\ pc' = "delivered"
    /\ locals' = <<>>

\* parts = split_html_report(formatted): lines 129-133
SplitBegin ==
    /\ pc = "formatted"
    /\ IF Len(result) <= SPLIT_BUDGET
       THEN SplitReturns(<<result>>)
       ELSE /\ locals' = [text |-> result, chunks |-> <<>>, start |-> 1,
                          pos |-> 1]
            /\ pc' = "resplit"
            /\ UNCHANGED <<parts, calls>>
    /\ UNCHANGED <<result, valid, report>>
    /\ UNCHANGED core

\* re.split (line 133): the chunk up to the next start of the marker, or
\* up to the end of the text; then line 135
ReSplitAt ==
    /\ pc = "resplit"
    /\ LET q == NextMarker(locals.text, locals.pos)
           chunk == SubSeq(locals.text, locals.start, q - 1)
       IN  IF q > Len(locals.text)
           THEN /\ locals' = [text |-> locals.text,
                              chunks |-> Append(locals.chunks, chunk),
                              k |-> 1, current |-> <<>>, parts |-> <<>>]
                /\ pc' = "accumulate"
           ELSE /\ locals' = [locals EXCEPT !.chunks = Append(@, chunk),
                                            !.start = q, !.pos = q + 1]
                /\ UNCHANGED pc
    /\ UNCHANGED <<result, valid, parts, report, calls>>
    /\ UNCHANGED core

\* one round of the loop of lines 136-144, or lines 146-152
AccumulateChunk ==
    /\ pc = "accumulate"
    /\ LET st == [parts |-> locals.parts, current |-> locals.current]
           on == [locals EXCEPT !.k = @ + 1]
           done == [text |-> locals.text, parts |-> Flush(st), k |-> 1,
                    result |-> <<>>]
       IN  IF locals.k > Len(locals.chunks)
           THEN IF NoParts(done.parts)
                THEN /\ locals' = [text |-> locals.text,
                                   max_length |-> SPLIT_BUDGET,
                                   back |-> done]
                     /\ pc' = "part_cut"
                ELSE /\ locals' = done
                     /\ pc' = "fit"
           ELSE /\ UNCHANGED pc
                /\ LET chunk == locals.chunks[locals.k]
                   IN  IF chunk = <<>> THEN locals' = on
                       ELSE IF Fits(locals.current, chunk, SPLIT_BUDGET)
                            THEN locals' = [on EXCEPT !.current = @ \o chunk]
                       ELSE locals' = [on EXCEPT !.parts = Flush(st),
                                                 !.current = chunk]
    /\ UNCHANGED <<result, valid, parts, report, calls>>
    /\ UNCHANGED core

\* one round of the loop of lines 153-157, or line 159
FitNext ==
    /\ pc = "fit"
    /\ IF locals.k > Len(locals.parts)
       THEN SplitReturns(locals.result)
       ELSE LET part == locals.parts[locals.k]
            IN  /\ IF Len(part) <= SPLIT_BUDGET
                   THEN /\ locals' = [locals EXCEPT
                                        !.result = Append(@, part),
                                        !.k = @ + 1]
                        /\ UNCHANGED pc
                   ELSE /\ locals' = [text |-> part,
                                      max_length |-> SPLIT_BUDGET,
                                      back |-> locals]
                        /\ pc' = "part_cut"
                /\ UNCHANGED <<parts, calls>>
    /\ UNCHANGED <<result, valid, report>>
    /\ UNCHANGED core

InitDeliver ==
    /\ input = <<>>
    /\ arg = <<>>
    /\ result = <<>>
    /\ valid = FALSE
    /\ parts = <<>>
    /\ report \in DeliverReports
    /\ max_length = SPLIT_BUDGET
    /\ calls = <<>>
    /\ pc = "format"
    /\ raised = "none"
    /\ refs = <<>>
    /\ raw_parts = <<>>
    /\ loop_index = 0
    /\ sends = <<>>
    /\ callers = <<>>
    /\ locals = <<>>
    /\ vault = NoVault

NextDeliver ==
    \/ FormatBegin
    \/ SanitizeRoundOf
    \/ ValidateAt
    \/ TruncateCut
    \/ RescanAt
    \/ CheckBegin
    \/ SplitBegin
    \/ ReSplitAt
    \/ AccumulateChunk
    \/ FitNext

SpecDeliver == InitDeliver /\ [][NextDeliver]_vars

---------------------------------------------------------------------------
(* Properties of the delivery pipeline.                                    *)

\* C27: every return value of format_process_report passes the validator:
\* whichever path made the result (the error line, the sanitized report
\* truncated to the budget, the escaped report, the fixed text), the
\* validator accepts it.
FormatResultValid ==
    pc = "validated" => valid

\* where the records of a text start
MarkerPositions(text) ==
    {p \in 1..Len(text) : StartsWith(text, p, SeedMarker)}

\* the record that starts at p: up to the next marker, or to the end
RecordAt(text, p) == SubSeq(text, p, NextMarker(text, p + 1) - 1)

\* the sanitizer changes nothing in text: every "<" starts a whitelisted
\* tag, every ">" ends one, and there is no "&"
Untouched(text) ==
    \A q \in 1..Len(text) :
        /\ text[q] # "&"
        /\ text[q] = "<" => TagAllowed(TagMatch(text, q))
        /\ text[q] = ">"
              => \E p \in 1..q : TagMatch(text, p).len = q - p + 1

Contains(seg, r) == \E q \in 1..Len(seg) : StartsWith(seg, q, r)

\* C23: hard truncation only hits oversized single records.  When a valid
\* report, each of whose records fits in the budget, has been formatted and
\* split with the budgets of the code, every record is whole in one of the
\* segments, however long the report is.
RecordsIntact ==
    (/\ pc = "delivered"
     /\ ReportOnly
     /\ valid
     /\ Untouched(report.report)
     /\ \A p \in MarkerPositions(report.report) :
            Len(RecordAt(report.report, p)) <= SPLIT_BUDGET)
        => \A p \in MarkerPositions(report.report) :
               \E k \in 1..Len(parts) :
                   Contains(parts[k], Strip(RecordAt(report.report, p)))

---------------------------------------------------------------------------
(* The generation handler cmd_content                                      *)
(* (src/src/content_bot/bot/handlers/content.py, lines 59-104) with the    *)
(* git service (src/src/content_bot/services/git.py).  cmd_plan            *)
(* (content_plan.py 56-100), on_plan_new and on_plan_reconcile             *)
(* (callbacks.py 248-298, 328-375) and the plan edit of text.py 46-85 are  *)
(* the same code around another processor call.  The generation runs in a  *)
(* thread of its own; the handler sees it done only at an await.  Google   *)
(* Docs sync is not configured (sync_info is empty).  The handlers pass no *)
(* budget to split_html_report; the model also draws a small one so that   *)
(* a short report has several segments.                                    *)

\* await asyncio.sleep(30); elapsed += 30
POLL == 30

\* the rounds of the polling loop a generation may outlast
MaxPolls == 2

\* the two numbers of f"... ({elapsed // 60}m {elapsed % 60}s)"
ProgressText(elapsed) == <<elapsed \div 60, elapsed % 60>>

\* the handler before create_task
NoTask == [task |-> "none", outcome |-> NoReport, elapsed |-> 0]

\* two seed records
TwoSeeds == SeedHeader \o <<" ">> \o SeedHeader

\* what generate_content_seeds returns
GenOutcomes ==
    { ReportRecord(SideText), ReportRecord(TwoSeeds),
      ErrorRecord(OtherFailure) }

GenBudgets == {Len(SeedHeader) + 1, SPLIT_BUDGET}

\* the vault when the handler starts: clean, with changes, or clean with a
\* commit of an earlier call that was not pushed
GenVaults ==
    { NoVault, [NoVault EXCEPT !.changes = TRUE],
      [NoVault EXCEPT !.commits = 1] }

\* a progress edit of the status message, with the state of the task when
\* edit_text was called
ProgressEdit(ok) ==
    [k |-> 0, text |-> ProgressText(locals.elapsed), by |-> "progress",
     plain |-> FALSE, ok |-> ok, task |-> locals.task]

\* segments sent or tried so far
IsSegment(a) == a.by \in {"edit", "answer"}

\* one git command run in the vault, with what the vault, the task and the
\* delivery were when it ran
GitEvent(op, ok) ==
    [op |-> op, ok |-> ok, dirty |-> vault.changes,
     commits |-> vault.commits, pushed |-> vault.pushed,
     task |-> locals.task, sent |-> Len(SelectSeq(sends, IsSegment))]

\* the loop body edits the status message whatever the task does
ProgressGuardAlways(task) == TRUE

\* if not task.done()
ProgressGuard(task) == task = "running"

\* the handler commits whatever the record holds
CommitWantedAlways(rep) == TRUE

\* if "error" not in report
CommitWanted(rep) == ~rep.has_error

\* task = asyncio.create_task(asyncio.to_thread(...)); elapsed = 0
StartTask ==
    /\ pc = "start"
    /\ locals' = [NoTask EXCEPT !.task = "running"]
    /\ pc' = "loop"
    /\ UNCHANGED <<input, arg, result, valid, parts, report, max_length,
                   calls, raised, refs, raw_parts, loop_index, sends,
                   callers, vault>>

\* the thread of generate_content_seeds ends, at any moment of the handler:
\* it returns a record, or an exception leaves it; it may have written
\* files of the vault
TaskFinishes ==
    /\ locals.task = "running"
    /\ \/ \E rep \in GenOutcomes :
              locals' = [locals EXCEPT !.task = "done", !.outcome = rep]
       \/ locals' = [locals EXCEPT !.task = "failed"]
    /\ \E wrote \in BOOLEAN :
          vault' = [vault EXCEPT !.changes = @ \/ wrote]
    /\ UNCHANGED <<input, arg, result, valid, parts, report, max_length,
                   calls, pc, raised, refs, raw_parts, loop_index, sends,
                   callers>>

\* while not task.done()
LoopTest ==
    /\ pc = "loop"
    /\ pc' = IF locals.task = "running" THEN "sleep" ELSE "await"
    /\ UNCHANGED <<input, arg, result, valid, parts, report, max_length,
                   calls, raised, refs, raw_parts, loop_index, sends>>
    /\ UNCHANGED threads

\* await asyncio.sleep(30); elapsed += 30.  A generation outlasts MaxPolls
\* rounds at most.
Sleep ==
    /\ pc = "sleep"
    /\ locals.elapsed < MaxPolls * POLL \/ locals.task # "running"
    /\ locals' = [locals EXCEPT !.elapsed = @ + POLL]
    /\ pc' = "check"
    /\ UNCHANGED <<input, arg, result, valid, parts, report, max_length,
                   calls, raised, refs, raw_parts, loop_index, sends,
                   callers, vault>>

\* lines 68-73: if the task is not done, the status message is edited; what
\* the edit raises is passed over.  No await lies between the test and the
\* call of edit_text.
Progress ==
    /\ pc = "check"
    /\ IF ProgressGuard(locals.task)
       THEN \E ok \in BOOLEAN : sends' = Append(sends, ProgressEdit(ok))
       ELSE UNCHANGED sends
    /\ pc' = "loop"
    /\ UNCHANGED <<input, arg, result, valid, parts, report, max_length,
                   calls, raised, refs, raw_parts, loop_index>>
    /\ UNCHANGED threads

\* return await task; report = await run_with_progress(): the record of the
\* task, or the exception that left it
AwaitTask ==
    /\ pc = "await"
    /\ locals.task # "running"
    /\ IF locals.task = "failed"
       THEN Raise("OSError") /\ UNCHANGED report
       ELSE /\ report' = locals.outcome
            /\ pc' = "returned"
            /\ UNCHANGED raised
    /\ UNCHANGED <<input, arg, result, valid, parts, max_length, calls,
                   refs, raw_parts, loop_index, sends>>
    /\ UNCHANGED threads

\* if "error" not in report: await asyncio.to_thread(git.commit_and_push, ...)
CommitStep ==
    /\ pc = "returned"
    /\ pc' = IF CommitWanted(report) THEN "git_status" ELSE "format"
    /\ UNCHANGED <<input, arg, result, valid, parts, report, max_length,
                   calls, raised, refs, raw_parts, loop_index, sends>>
    /\ UNCHANGED threads

\* has_changes (git.py 26-29, 33-35): git status --porcelain prints the
\* changes of the vault, or prints nothing because there are none or
\* because it failed; or git cannot be started and subprocess.run raises
has_changes ==
    /\ pc = "git_status"
    /\ \/ /\ vault' = [vault EXCEPT !.log = Append(@, GitEvent("status", FALSE))]
          /\ Raise("OSError")
       \/ \E printed \in {FALSE, vault.changes} :
             /\ vault' = [vault EXCEPT
                            !.log = Append(@, GitEvent("status", printed))]
             /\ pc' = IF printed THEN "git_add" ELSE "format"
             /\ UNCHANGED raised
    /\ UNCHANGED <<input, arg, result, valid, parts, report, max_length,
                   calls, refs, raw_parts, loop_index, sends, callers,
                   locals>>

\* git.py 37-40: git add -A
GitAdd ==
    /\ pc = "git_add"
    /\ \E ok \in BOOLEAN :
          /\ vault' = [vault EXCEPT !.log = Append(@, GitEvent("add", ok)),
                                    !.staged = @ \/ ok]
          /\ pc' = IF ok THEN "git_commit" ELSE "format"
    /\ UNCHANGED <<input, arg, result, valid, parts, report, max_length,
                   calls, raised, refs, raw_parts, loop_index, sends,
                   callers, locals>>

\* git.py 42-48: git commit -m message
commit_changes ==
    /\ pc = "git_commit"
    /\ \E ok \in BOOLEAN :
          /\ vault' = IF ok
                      THEN [vault EXCEPT
                              !.log = Append(@, GitEvent("commit", TRUE)),
                              !.changes = FALSE, !.staged = FALSE,
                              !.commits = @ + 1]
                      ELSE [vault EXCEPT
                              !.log = Append(@, GitEvent("commit", FALSE))]
          /\ pc' = IF ok THEN "git_push" ELSE "format"
    /\ UNCHANGED <<input, arg, result, valid, parts, report, max_length,
                   calls, raised, refs, raw_parts, loop_index, sends,
                   callers, locals>>

\* git.py 50-58, 62-63: if self.commit_changes(message): return self.push()
push ==
    /\ pc = "git_push"
    /\ \E ok \in BOOLEAN :
          vault' = [vault EXCEPT
                      !.log = Append(@, GitEvent("push", ok)),
                      !.pushed = IF ok THEN vault.commits ELSE @]
    /\ pc' = "format"
    /\ UNCHANGED <<input, arg, result, valid, parts, report, max_length,
                   calls, raised, refs, raw_parts, loop_index, sends,
                   callers, locals>>

\* formatted = format_process_report(report)
FormatReport ==
    /\ pc = "format"
    /\ result' = format_process_report(report)
    /\ calls' = Append(calls, "format")
    /\ pc' = "split"
    /\ UNCHANGED <<input, arg, valid, parts, report, max_length, raised,
                   refs, raw_parts, loop_index, sends>>
    /\ UNCHANGED threads

InitGen ==
    /\ input = <<>>
    /\ arg = <<>>
    /\ result = <<>>
    /\ valid = FALSE
    /\ parts = <<>>
    /\ report = NoReport
    /\ max_length \in GenBudgets
    /\ calls = <<>>
    /\ pc = "start"
    /\ raised = "none"
    /\ refs = <<>>
    /\ raw_parts = <<>>
    /\ loop_index = 0
    /\ sends = <<>>
    /\ callers = <<>>
    /\ locals = NoTask
    /\ vault \in GenVaults

NextGen ==
    \/ StartTask
    \/ TaskFinishes
    \/ LoopTest
    \/ Sleep
    \/ Progress
    \/ AwaitTask
    \/ CommitStep
    \/ has_changes
    \/ GitAdd
    \/ commit_changes
    \/ push
    \/ FormatReport
    \/ SplitReport
    \/ EditFirst
    \/ EditFirstPlain
    \/ Answer
    \/ AnswerPlain

SpecGen == InitGen /\ [][NextGen]_vars

---------------------------------------------------------------------------
(* Properties of the generation handler.                                   *)

IsProgress(a) == a.by = "progress"

\* a call of status_msg.edit_text that returned: the text is on the message
WroteStatus(a) == a.by \in {"progress", "edit"} /\ a.ok

\* what was written to the status message, in order
StatusWrites == SelectSeq(sends, WroteStatus)

\* the handler is in the polling loop, or before it
Polling == pc \in {"start", "loop", "sleep", "check"}

\* C28: progress polling never overwrites the result.  Every progress text
\* was sent to the status message while the generation task was not done;
\* the handler is past the polling loop only when the task is done; no
\* progress edit comes after an edit with the first report segment; so once
\* the first segment is written, and when the handler has ended, the last
\* text written to the status message is that segment.
ProgressNeverOverwrites ==
    /\ \A j \in 1..Len(sends) :
           IsProgress(sends[j]) => sends[j].task = "running"
    /\ ~Polling => locals.task \in {"done", "failed"}
    /\ \A i \in 1..Len(sends) : \A j \in i..Len(sends) :
           sends[i].by = "edit" => ~IsProgress(sends[j])
    /\ (pc = "done" \/ \E j \in 1..Len(sends) :
                          sends[j].by = "edit" /\ sends[j].ok)
           => /\ StatusWrites # <<>>
              /\ StatusWrites[Len(StatusWrites)].by = "edit"
              /\ StatusWrites[Len(StatusWrites)].text = parts[EditedIndex]

\* C28 happens: the generation outlasted two rounds of the loop, one
\* progress edit was written and one raised and was passed over, and the
\* handler ended with the report on the status message.
ProgressNeverOverwritesWitness ==
    /\ pc = "done"
    /\ locals.elapsed > POLL
    /\ \E j \in 1..Len(sends) : IsProgress(sends[j]) /\ sends[j].ok
    /\ \E j \in 1..Len(sends) : IsProgress(sends[j]) /\ ~sends[j].ok
    /\ Len(StatusWrites) >= 2

\* the handler is past the commit step
PastCommit ==
    pc \in {"format", "split", "edit", "edit_plain", "answer",
            "answer_plain", "done"}

\* C29: commit ordering.  Git commands have run in the vault only for a
\* returned record without an error, and once the handler is past the
\* commit step they have run for every such record; each ran after the
\* generation task had finished and before any segment was sent; git push
\* ran only right after a git commit of the same call that succeeded;
\* after a git status run on a vault without changes nothing else ran, and
\* the commits and the pushed commits are what they were.
CommitOrdering ==
    /\ vault.log # <<>>
           => /\ locals.task = "done"
              /\ report = locals.outcome
              /\ ~report.has_error
    /\ (PastCommit /\ ~report.has_error) => vault.log # <<>>
    /\ \A j \in 1..Len(vault.log) :
           /\ vault.log[j].task = "done"
           /\ vault.log[j].sent = 0
           /\ vault.log[j].op = "status" <=> j = 1
           /\ vault.log[j].op = "push"
                  => /\ j > 1
                     /\ vault.log[j - 1].op = "commit"
                     /\ vault.log[j - 1].ok
           /\ (vault.log[j].op = "status" /\ ~vault.log[j].dirty)
                  => /\ j = Len(vault.log)
                     /\ ~vault.staged
                     /\ vault.commits = vault.log[j].commits
                     /\ vault.pushed = vault.log[j].pushed
    /\ (sends # <<>> /\ \E j \in 1..Len(sends) : IsSegment(sends[j]))
           => pc \notin {"returned", "git_status", "git_add", "git_commit",
                         "git_push"}

\* C29 happens: the handler ended after git status, add, commit and push,
\* all run before the two segments were sent.
CommitOrderingWitness ==
    /\ pc = "done"
    /\ Len(SelectSeq(sends, IsSegment)) >= 2
    /\ Len(vault.log) = 4
    /\ vault.log[4].op = "push"
    /\ vault.log[4].ok
    /\ vault.pushed = vault.commits

---------------------------------------------------------------------------
(* The choice of a seed by number                                          *)
(* (src/src/content_bot/bot/handlers/callbacks.py, lines 30-153, with      *)
(* src/src/content_bot/bot/states.py and dismiss_seeds and                 *)
(* list_unpublished_seeds of processor.py, lines 539-631).  The FSM        *)
(* storage is the in-memory one (bot/main.py, line 30): its calls return   *)
(* without suspending the handler, so lines 90-91 are one step.  Handlers  *)
(* of one chat are taken one at a time; sends holds the reply handled      *)
(* last.                                                                   *)

\* the seeds of the vault, by their key
MaxSeeds == 2

DigitSeq == <<"0","1","2","3","4","5","6","7","8","9">>

DigitValue(c) == (CHOOSE k \in 1..10 : DigitSeq[k] = c) - 1

IsDigit(c) == c \in Digits

RECURSIVE DecimalValue(_)
\* int() of a run of digits
DecimalValue(ds) ==
    IF ds = <<>> THEN 0
    ELSE 10 * DecimalValue(SubSeq(ds, 1, Len(ds) - 1))
           + DigitValue(ds[Len(ds)])

RECURSIVE FindNumbers(_, _)
\* re.findall(r"\d+", s) from position p on: the maximal runs of digits
FindNumbers(s, p) ==
    IF p > Len(s) THEN <<>>
    ELSE IF ~IsDigit(s[p]) THEN FindNumbers(s, p + 1)
    ELSE LET after == {q \in p..Len(s) : ~IsDigit(s[q])}
             e == IF after = {} THEN Len(s)
                  ELSE (CHOOSE q \in after : \A o \in after : q <= o) - 1
         IN <<SubSeq(s, p, e)>> \o FindNumbers(s, e + 1)

\* int(text) of a stripped text: an optional sign, then digits, single
\* underscores allowed between digits; anything else is a ValueError
ParseInt(text) ==
    LET signed == text # <<>> /\ text[1] \in {"+", "-"}
        body == IF signed THEN Tail(text) ELSE text
        ok == /\ body # <<>>
              /\ \A k \in 1..Len(body) : IsDigit(body[k]) \/ body[k] = "_"
              /\ IsDigit(body[1])
              /\ IsDigit(body[Len(body)])
              /\ \A k \in 1..(Len(body) - 1) :
                     ~(body[k] = "_" /\ body[k + 1] = "_")
        magnitude == DecimalValue(SelectSeq(body, IsDigit))
    IN [ok |-> ok,
        value |-> IF ~ok THEN 0
                  ELSE IF signed /\ text[1] = "-" THEN 0 - magnitude
                  ELSE magnitude]

DismissWords ==
    { <<"d","i","s","m","i","s","s">>, <<"r","e","m","o","v","e">>,
      <<"h","i","d","e">> }

\* re.match(r"(?:dismiss|remove|hide)\s+(.+)", text, re.IGNORECASE): the
\* word at the start, the longest run of whitespace that leaves a
\* character other than a newline after it, and group 1 up to the end of
\* that line
DismissMatch(text) ==
    LET words == {w \in DismissWords : StartsWith(LowerAll(text), 1, w)}
        q == Len(CHOOSE w \in words : TRUE) + 1
        starts == {g \in (q + 1)..Len(text) :
                      /\ \A k \in q..(g - 1) : text[k] \in WhiteSpace
                      /\ text[g] # "\n"}
        g == CHOOSE s \in starts : \A o \in starts : o <= s
        breaks == {k \in g..Len(text) : text[k] = "\n"}
        e == IF breaks = {} THEN Len(text)
             ELSE (CHOOSE k \in breaks : \A o \in breaks : k <= o) - 1
    IN IF words = {} \/ starts = {}
       THEN [matched |-> FALSE, group |-> <<>>]
       ELSE [matched |-> TRUE, group |-> SubSeq(text, g, e)]

\* num > len(seeds) only
OutOfRangeAbove(num, n) == num > n

\* num < 1 or num > len(seeds); not (1 <= int(n) <= len(seeds))
OutOfRange(num, n) == num < 1 \/ num > n

\* [int(n) for n in re.findall(r"\d+", numbers_str)
\*  if 1 <= int(n) <= len(seeds)]
DismissNumbers(numbers_str, n) ==
    LET found == FindNumbers(numbers_str, 1)
        values == [k \in 1..Len(found) |-> DecimalValue(found[k])]
        InSeeds(v) == ~OutOfRange(v, n)
    IN SelectSeq(values, InSeeds)

\* a message with a text, or without one (a photo, a voice note)
TextReply(t) == [has_text |-> TRUE, text |-> t]

NonText == [has_text |-> FALSE, text |-> <<>>]

\* what the user may reply
Replies ==
    { NonText,
      TextReply(<<"1">>), TextReply(<<" ","2"," ">>), TextReply(<<"0">>),
      TextReply(<<"3">>), TextReply(<<"-","1">>), TextReply(<<"1","0">>),
      TextReply(<<"x">>), TextReply(<<"1"," ","2">>),
      TextReply(<<"h","i","d","e">>),
      TextReply(<<"h","i","d","e"," ","1">>),
      TextReply(<<"D","i","s","m","i","s","s"," ","2"," ","9">>),
      TextReply(<<"r","e","m","o","v","e"," "," ","0",",","3">>),
      TextReply(<<"h","i","d","e"," ","x">>),
      TextReply(<<"h","i","d","e","s"," ","1">>) }

\* the conversation before the list is asked for; the handler's locals
NoChat ==
    [state |-> "none", seeds |-> <<>>, reply |-> NonText, nums |-> <<>>,
     dismissed |-> {}]

\* the seeds of S in the order of the vault
ListOf(S) ==
    CHOOSE f \in [1..Cardinality(S) -> S] :
        \A i \in 1..Cardinality(S) : \A j \in 1..Cardinality(S) :
            i < j => f[i] < f[j]

\* one reply handled by on_seed_number: the reply, the length of the stored
\* list, the indexes used into it, what was done, whether the handler
\* returned or an exception left it, and the state it left
Handled(r, used, by, ok, st) ==
    [reply |-> r, n |-> Len(locals.seeds), used |-> used, by |-> by,
     ok |-> ok, stayed |-> (st = "waiting_for_number")]

\* lines 33-38: await state.clear(); if not msg: return
on_content_my_seeds ==
    /\ pc = "idle"
    /\ locals' = [locals EXCEPT !.state = "none", !.seeds = <<>>]
    /\ \E msg \in BOOLEAN : pc' = IF msg THEN "list" ELSE "idle"
    /\ UNCHANGED <<input, arg, result, valid, parts, report, max_length,
                   calls, raised, refs, raw_parts, loop_index, sends,
                   callers, vault>>

\* lines 40-91: list_unpublished_seeds returns an error, or the seeds that
\* are neither hidden nor found published; with an error or with no seed
\* left the handler says so and returns; else it sets the state and stores
\* the list
list_unpublished_seeds ==
    /\ pc = "list"
    /\ \/ /\ pc' = "idle"
          /\ UNCHANGED locals
       \/ \E published \in SUBSET (1..MaxSeeds) :
             LET active == (1..MaxSeeds) \ locals.dismissed
                 unpublished == ListOf(active \ published)
             IN /\ active # {}
                /\ IF unpublished = <<>>
                   THEN pc' = "idle" /\ UNCHANGED locals
                   ELSE /\ locals' = [locals EXCEPT
                                        !.state = "waiting_for_number",
                                        !.seeds = unpublished]
                        /\ pc' = "show"
    /\ UNCHANGED <<input, arg, result, valid, parts, report, max_length,
                   calls, raised, refs, raw_parts, loop_index, sends,
                   callers, vault>>

\* lines 93-96: the list is shown, as plain text if the formatted edit
\* raises; what the plain edit raises leaves the handler
ShowList ==
    /\ pc = "show"
    /\ \E ok \in BOOLEAN : pc' = "idle"
    /\ UNCHANGED <<input, arg, result, valid, parts, report, max_length,
                   calls, raised, refs, raw_parts, loop_index, sends>>
    /\ UNCHANGED threads

\* lines 160, 177, 208, 298: another button of the menu; await state.clear()
OtherCallback ==
    /\ pc = "idle"
    /\ locals.state # "none"
    /\ locals' = [locals EXCEPT !.state = "none", !.seeds = <<>>]
    /\ UNCHANGED <<input, arg, result, valid, parts, report, max_length,
                   calls, pc, raised, refs, raw_parts, loop_index, sends,
                   callers, vault>>

\* lines 102-117 and 128-139 of on_seed_number, which the router calls in
\* state waiting_for_number only (line 99)
on_seed_number ==
    /\ pc = "idle"
    /\ locals.state = "waiting_for_number"
    /\ \E r \in Replies :
          LET text == Strip(r.text)
              seeds == locals.seeds
              dismiss_match == DismissMatch(text)
              nums == DismissNumbers(dismiss_match.group, Len(seeds))
              num == ParseInt(text)
              cleared == [locals EXCEPT !.state = "none", !.seeds = <<>>,
                                        !.reply = r]
              Ends(by, after) ==
                  /\ locals' = after
                  /\ sends' = <<Handled(r, <<>>, by, TRUE, after.state)>>
                  /\ pc' = "idle"
          IN IF ~r.has_text \/ r.text = <<>>
             THEN Ends("none", cleared)
             ELSE IF dismiss_match.matched
             THEN IF nums = <<>>
                  THEN Ends("hint", [locals EXCEPT !.reply = r])
                  ELSE /\ locals' = [locals EXCEPT !.reply = r, !.nums = nums]
                       /\ pc' = "dismiss"
                       /\ UNCHANGED sends
             ELSE IF ~num.ok
             THEN Ends("none", cleared)
             ELSE IF OutOfRange(num.value, Len(seeds))
             THEN Ends("hint", [locals EXCEPT !.reply = r])
             ELSE /\ locals' = [locals EXCEPT !.state = "none",
                                              !.reply = r,
                                              !.nums = <<num.value>>]
                  /\ pc' = "expand"
                  /\ UNCHANGED sends
    /\ UNCHANGED <<input, arg, result, valid, parts, report, max_length,
                   calls, raised, refs, raw_parts, loop_index, callers,
                   vault>>

\* lines 119-126: the seeds are marked as hidden and the file of hidden
\* seeds is written, then the state is cleared and the count is answered;
\* or writing the file raises (processor.py 532-537, in no try) and the
\* exception leaves the handler
dismiss_seeds ==
    /\ pc = "dismiss"
    /\ \/ /\ sends' = <<Handled(locals.reply, locals.nums,
                                 "dismiss", FALSE, locals.state)>>
          /\ locals' = [locals EXCEPT !.nums = <<>>]
       \/ LET to_dismiss == {locals.seeds[locals.nums[k]] :
                                k \in 1..Len(locals.nums)}
          IN /\ sends' = <<Handled(locals.reply, locals.nums,
                                    "dismiss", TRUE, "none")>>
             /\ locals' = [locals EXCEPT
                             !.dismissed = @ \cup to_dismiss,
                             !.state = "none", !.seeds = <<>>,
                             !.nums = <<>>]
    /\ pc' = "idle"
    /\ UNCHANGED <<input, arg, result, valid, parts, report, max_length,
                   calls, raised, refs, raw_parts, loop_index, callers,
                   vault>>

\* lines 138-153: seed = seeds[num - 1], the state is cleared (in the step
\* before), and the seed is answered, as plain text if the formatted answer
\* raises
ExpandSeed ==
    /\ pc = "expand"
    /\ \E ok \in BOOLEAN :
          sends' = <<Handled(locals.reply, locals.nums,
                             "expand", ok, locals.state)>>
    /\ locals' = [locals EXCEPT !.seeds = <<>>, !.nums = <<>>]
    /\ pc' = "idle"
    /\ UNCHANGED <<input, arg, result, valid, parts, report, max_length,
                   calls, raised, refs, raw_parts, loop_index, callers,
                   vault>>

InitSelect ==
    /\ input = <<>>
    /\ arg = <<>>
    /\ result = <<>>
    /\ valid = FALSE
    /\ parts = <<>>
    /\ report = NoReport
    /\ max_length = 0
    /\ calls = <<>>
    /\ pc = "idle"
    /\ raised = "none"
    /\ refs = <<>>
    /\ raw_parts = <<>>
    /\ loop_index = 0
    /\ sends = <<>>
    /\ callers = <<>>
    /\ locals = NoChat
    /\ vault = NoVault

NextSelect ==
    \/ OtherCallback
    \/ on_content_my_seeds
    \/ list_unpublished_seeds
    \/ ShowList
    \/ on_seed_number
    \/ dismiss_seeds
    \/ ExpandSeed

SpecSelect == InitSelect /\ [][NextSelect]_vars

---------------------------------------------------------------------------
(* Properties of the choice of a seed.                                     *)

\* what a reply is, given a stored list of n seeds
ReplyKind(r, n) ==
    LET text == Strip(r.text)
        command == DismissMatch(text)
        number == ParseInt(text)
    IN IF ~r.has_text THEN "non_text"
       ELSE IF command.matched
       THEN IF \E k \in 1..n :
                   \E j \in 1..Len(FindNumbers(command.group, 1)) :
                       DecimalValue(FindNumbers(command.group, 1)[j]) = k
            THEN "valid_dismiss" ELSE "dismiss_without_number"
       ELSE IF number.ok
       THEN IF number.value \in 1..n THEN "valid_number" ELSE "out_of_range"
       ELSE "non_numeric"

\* C30: the seed-selection state machine.  The conversation is in
\* waiting_for_number only with a non-empty list stored; a reply handled in
\* that state leaves the conversation in it exactly when the reply is a
\* number out of range or a dismiss command without a number in range, and
\* clears it for a message without text, a text that is no number, a number
\* in range and a dismiss command with a number in range; every index used
\* to expand or dismiss a seed is within 1..len(seeds).
SeedSelection ==
    /\ locals.state = "waiting_for_number" => locals.seeds # <<>>
    /\ \A j \in 1..Len(sends) :
           /\ sends[j].n > 0
           /\ sends[j].stayed
                  <=> ReplyKind(sends[j].reply, sends[j].n)
                          \in {"out_of_range", "dismiss_without_number"}
           /\ \A k \in 1..Len(sends[j].used) :
                  sends[j].used[k] \in 1..sends[j].n

\* C30 as far as the code goes: the same, for the replies whose handling
\* returned or raised after the state was cleared.
SeedSelectionWhenDismissed ==
    /\ locals.state = "waiting_for_number" => locals.seeds # <<>>
    /\ \A j \in 1..Len(sends) :
           /\ sends[j].n > 0
           /\ (sends[j].ok \/ sends[j].by # "dismiss")
                  => (sends[j].stayed
                         <=> ReplyKind(sends[j].reply, sends[j].n)
                                 \in {"out_of_range",
                                      "dismiss_without_number"})
           /\ \A k \in 1..Len(sends[j].used) :
                  sends[j].used[k] \in 1..sends[j].n

=============================================================================
